---------------------------- MODULE Spec2Model ----------------------------
(***************************************************************************)
(* A model of igc_lib: the two-state Viterbi decoder (lib/viterbi.py) and  *)
(* the construction of a Flight (igc_lib.py): validation stages, derived   *)
(* fields, the flying/circling classification, takeoff/landing detection   *)
(* and the segmentation of the track into thermals and glides.             *)
(*                                                                         *)
(* Numbers.  Python floats are modelled by integers in fixed units:        *)
(*   - times are whole seconds (B records carry HHMMSS);                   *)
(*   - altitudes are whole metres (B records carry five-digit metres);     *)
(*   - latitudes are thousandths of an arc minute (the B-record unit);     *)
(*   - log-probabilities are integers in units of 1/10000 (natural log).   *)
(* Sequences are 1-based: the fix with Python index i is fixes[i + 1].     *)
(***************************************************************************)
EXTENDS Integers, Sequences, FiniteSets, TLC

-----------------------------------------------------------------------------
(* Bounds of the model *)

\* longest emission sequence handed to the stand-alone decoder
MaxLen == 3
\* number of decode() calls made on one decoder instance
MaxCalls == 2
\* number of fixes of the flights replayed against a task
MaxTaskFixes == 3
\* shape of the logs handed to Flight(): LeadFixes fixes on the ground, then
\* FreeFixes fixes each of which moves north, moves south or holds, then 0
\* or TailFixes fixes on the ground
LeadFixes == 44
FreeFixes == 6
TailFixes == 4

-----------------------------------------------------------------------------
(* Generic helpers *)

abs(x) == IF x < 0 THEN -x ELSE x

\* Python's None
None == "None"

\* all sequences over S of length 0..n
RECURSIVE SeqsUpTo(_, _)
SeqsUpTo(S, n) ==
    IF n = 0 THEN {<<>>}
    ELSE LET shorter == SeqsUpTo(S, n - 1)
         IN shorter \cup {Append(s, x) : s \in {t \in shorter : Len(t) = n - 1}, x \in S}

SeqsOfLen(S, n) == {s \in SeqsUpTo(S, n) : Len(s) = n}

-----------------------------------------------------------------------------
(* lib/viterbi.py: SimpleViterbiDecoder *)

\* Candidate cumulative log-probabilities of reaching `target` at step i
\* from state 0 and from state 1 (prev is state_log[i - 1]).
from_0(prev, tlog, target) == prev[1] + tlog[1][target + 1]
from_1(prev, tlog, target) == prev[2] + tlog[2][target + 1]

\* mutant: the weaker predecessor is recorded
backtrack_choice_worst(prev, tlog, target) ==
    IF from_0(prev, tlog, target) < from_1(prev, tlog, target) THEN 0 ELSE 1

\* mutant: a tie between the predecessors is given to state 0
backtrack_choice_tie0(prev, tlog, target) ==
    IF from_0(prev, tlog, target) >= from_1(prev, tlog, target) THEN 0 ELSE 1

\* `if from_0 > from_1: backtrack_info[i][target] = 0 else: ... = 1`
backtrack_choice(prev, tlog, target) ==
    IF from_0(prev, tlog, target) > from_1(prev, tlog, target) THEN 0 ELSE 1

\* mutant: the emission term is left out
state_log_entry_no_emission(prev, tlog, elog, target, emission) ==
    IF backtrack_choice(prev, tlog, target) = 0
        THEN from_0(prev, tlog, target)
        ELSE from_1(prev, tlog, target)

\* state_log[i][target]: the chosen predecessor's value plus the emission term
state_log_entry(prev, tlog, elog, target, emission) ==
    (IF backtrack_choice(prev, tlog, target) = 0
        THEN from_0(prev, tlog, target)
        ELSE from_1(prev, tlog, target))
    + elog[target + 1][emission + 1]

\* state_log[0] after lines 54-56: the initial row plus the first emission
first_state_log(ilog, elog, emission) ==
    << ilog[1] + elog[1][emission + 1], ilog[2] + elog[2][emission + 1] >>

\* The forward pass, `for i in range(1, N)`: sl and bt hold rows 1..i-1.
RECURSIVE forward_pass(_, _, _, _, _, _)
forward_pass(sl, bt, tlog, elog, emissions, i) ==
    IF i > Len(emissions) THEN [state_log |-> sl, backtrack_info |-> bt]
    ELSE LET prev == sl[i - 1]
             row  == << state_log_entry(prev, tlog, elog, 0, emissions[i]),
                        state_log_entry(prev, tlog, elog, 1, emissions[i]) >>
             brow == << backtrack_choice(prev, tlog, 0),
                        backtrack_choice(prev, tlog, 1) >>
         IN forward_pass(Append(sl, row), Append(bt, brow), tlog, elog, emissions, i + 1)

\* mutant: a tie between the terminal states is given to state 0
terminal_state_tie0(last_row) == IF last_row[1] >= last_row[2] THEN 0 ELSE 1

\* `if state_log[N - 1][0] > state_log[N - 1][1]: state = 0 else: state = 1`
terminal_state(last_row) == IF last_row[1] > last_row[2] THEN 0 ELSE 1

\* The backward pass: the states of positions 1..i, position i being `state`.
RECURSIVE backward_pass(_, _, _)
backward_pass(bt, i, state) ==
    IF i = 1 THEN << state >>
    ELSE Append(backward_pass(bt, i - 1, bt[i][state + 1]), state)

\* decode() on a non-empty list: its local tables and its result.
decode_run(ilog, tlog, elog, emissions) ==
    LET N  == Len(emissions)
        fw == forward_pass(<< first_state_log(ilog, elog, emissions[1]) >>,
                           << <<None, None>> >>, tlog, elog, emissions, 2)
    IN [state_log      |-> fw.state_log,
        backtrack_info |-> fw.backtrack_info,
        states         |-> backward_pass(fw.backtrack_info, N,
                                         terminal_state(fw.state_log[N]))]

\* decode(): the returned list of states
decode(ilog, tlog, elog, emissions) ==
    IF emissions = <<>> THEN <<>> ELSE decode_run(ilog, tlog, elog, emissions).states

-----------------------------------------------------------------------------
(* igc_lib.py: FlightParsingConfig, the default thresholds *)

min_fixes == 50
max_seconds_between_fixes == 50
min_seconds_between_fixes == 1
max_time_violations == 10
max_new_days_in_flight == 2
\* min_avg_abs_alt_change = 0.01 metres per fix, here in centimetres
min_avg_abs_alt_change_cm == 1
max_alt_change_rate == 50
max_alt_change_violations == 3
max_alt == 10000
min_alt == -600
\* km/h
min_gsp_flight == 20
\* degrees per second
min_bearing_change_circling == 6
min_time_for_bearing_change == 5
min_time_for_thermal == 60

\* `DAY = 24.0 * 60.0 * 60.0` of _check_fix_rawtime
DAY == 24 * 60 * 60

-----------------------------------------------------------------------------
(* igc_lib.py: GNSSFix *)

\* GNSSFix.__init__: the raw fields.  The derived attributes do not exist
\* until Flight.__init__ sets them: attrs is the set of the derived attributes
\* the object has, and a field outside attrs holds a placeholder.  Every fix
\* of the model lies on the meridian lon = 0, so lon is not carried.
GNSSFix(rawtime, lat, press_alt, gnss_alt, index) ==
    [rawtime |-> rawtime, lat |-> lat, press_alt |-> press_alt,
     gnss_alt |-> gnss_alt, index |-> index, attrs |-> {},
     alt |-> 0, timestamp |-> 0, gsp |-> 0, flying |-> FALSE, bearing |-> 0,
     bearing_change_rate |-> 0, circling |-> FALSE]

\* the derived attributes of a GNSSFix
DerivedAttrs ==
    {"timestamp", "alt", "gsp", "bearing", "bearing_change_rate", "flying", "circling"}

\* `takeoff_fix = None`, `first_fix = None`, ...: no position in self.fixes
NoFix == 0

-----------------------------------------------------------------------------
(* The logs handed to Flight(): B records already parsed into fixes, and the *)
(* H records.  A log is LeadFixes fixes on the ground, a free part of        *)
(* FreeFixes fixes (or two legs around a stop on the ground) and a ground    *)
(* tail; its rawtimes, its two altitude channels and its moves are drawn     *)
(* from the profiles below.                                                  *)

\* seconds between two B records of a regular log
Interval == 15
\* thousandths of an arc minute covered between two fixes when moving
\* (185 m in 15 s, 44 km/h)
Stride == 100
\* latitude of the ground position, 46 degrees north
GroundLat == 2760000
GroundAlt == 500

Moves == {"N", "S", "H"}

TimeProfiles ==
    {"regular", "midnight", "setback1", "setback10", "setback11", "jumpback",
     "flap2", "flap3"}

AltProfiles == {"climb", "flat", "steps3", "steps4", "high", "highlast"}

\* number of setbacks of a "setbackN" profile
Setbacks(profile) ==
    CASE profile = "setback1"  -> 1
      [] profile = "setback10" -> max_time_violations
      [] profile = "setback11" -> max_time_violations + 1
      [] OTHER -> 0

\* number of midnight crossings of a "flapN" profile
Flaps(profile) ==
    CASE profile = "flap2" -> max_new_days_in_flight
      [] profile = "flap3" -> max_new_days_in_flight + 1
      [] OTHER -> 0

\* rawtime of the first B record
StartTime(profile, lead) ==
    CASE profile = "midnight" -> DAY - Interval * (lead + 2) + 10
      [] profile \in {"flap2", "flap3"} -> DAY - 2 * Interval + 5
      [] OTHER -> DAY \div 2

\* seconds from B record i - 1 to B record i (i >= 1), before the HHMMSS wrap
Increment(profile, i) ==
    CASE profile \in {"setback1", "setback10", "setback11"}
             /\ i >= 2 /\ i <= 2 * Setbacks(profile) + 1 ->
                 IF i % 2 = 0 THEN -5 ELSE 2 * Interval + 5
      [] profile = "jumpback" /\ i = 2 -> -85
      [] profile = "jumpback" /\ i = 3 -> 2 * Interval + 85
      [] profile \in {"flap2", "flap3"}
             /\ i >= 3 /\ i <= 2 * Flaps(profile) /\ i % 2 = 1 -> -Interval
      [] OTHER -> Interval

\* the HHMMSS time of B record i, seconds since midnight
RECURSIVE RecordTime(_, _, _)
RecordTime(profile, lead, i) ==
    IF i = 0 THEN StartTime(profile, lead)
    ELSE (RecordTime(profile, lead, i - 1) + Increment(profile, i) + DAY) % DAY

\* number of fixes of the free part among the fixes 0..i
FreeCount(lead, i) ==
    IF i < lead THEN 0
    ELSE IF i - lead + 1 > FreeFixes THEN FreeFixes ELSE i - lead + 1

\* number of steps of a "stepsN" profile
Steps(profile) ==
    CASE profile = "steps3" -> max_alt_change_violations
      [] profile = "steps4" -> max_alt_change_violations + 1
      [] OTHER -> 0

\* altitude of an altitude channel at B record i of a log of n records
RecordAlt(profile, lead, n, i) ==
    CASE profile = "flat" -> GroundAlt
      [] profile = "high" /\ i = 1 -> max_alt + 1
      [] profile = "highlast" /\ i = n - 1 -> max_alt + 1
      [] profile \in {"steps3", "steps4"} ->
             GroundAlt + 2 * FreeCount(lead, i)
             + 1000 * Cardinality({j \in 1..Steps(profile) : 2 * j <= i})
      [] OTHER -> GroundAlt + 2 * FreeCount(lead, i)

\* latitude of B record i: every move of the free part up to i applied
RECURSIVE RecordLat(_, _, _)
RecordLat(moves, lead, i) ==
    IF i < lead THEN GroundLat
    ELSE IF i >= lead + Len(moves) THEN RecordLat(moves, lead, lead + Len(moves) - 1)
    ELSE RecordLat(moves, lead, i - 1)
         + (CASE moves[i - lead + 1] = "N" -> Stride
              [] moves[i - lead + 1] = "S" -> -Stride
              [] OTHER -> 0)

\* the fixes create_from_file builds from the B records of a log
LogFixes(sc) ==
    LET n == sc.lead + Len(sc.moves) + sc.tail
    IN [k \in 1..n |->
          GNSSFix(RecordTime(sc.time, sc.lead, k - 1),
                  RecordLat(sc.moves, sc.lead, k - 1),
                  RecordAlt(sc.press, sc.lead, n, k - 1),
                  RecordAlt(sc.gnss, sc.lead, n, k - 1),
                  k - 1)]

\* H records: an HFDTE record is the three two-digit groups the regular
\* expression captures, or is not matched by it; other records have a tag.
HFDTE(dd, mm, yy) == [tag |-> "HFDTE", matched |-> TRUE, dd |-> dd, mm |-> mm, yy |-> yy]
HFDTE_unmatched == [tag |-> "HFDTE", matched |-> FALSE, dd |-> 0, mm |-> 0, yy |-> 0]
HFGTY == [tag |-> "HFGTY", matched |-> TRUE, dd |-> 0, mm |-> 0, yy |-> 0]

HRecordLists ==
    { <<>>,
      << HFDTE(3, 4, 16) >>,
      << HFGTY, HFDTE(29, 2, 16) >>,
      << HFDTE(3, 13, 16) >>,
      << HFDTE(0, 4, 16) >>,
      << HFDTE_unmatched, HFGTY >>,
      << HFDTE(31, 2, 17) >>,
      << HFDTE(3, 4, 16), HFDTE(31, 4, 16) >> }

AllMoves == [1..FreeFixes -> Moves]

\* a climb in zigzags (circling) followed by a straight leg
ZigzagMoves == [j \in 1..FreeFixes |-> IF j % 2 = 1 /\ j < FreeFixes THEN "N"
                                       ELSE IF j < FreeFixes THEN "S" ELSE "N"]

\* every shape of the free part, in an otherwise regular log
ShapeLogs ==
    { [lead |-> LeadFixes, tail |-> t, time |-> "regular", press |-> "climb",
       gnss |-> "climb", hrecs |-> << HFDTE(3, 4, 16) >>, moves |-> m] :
      t \in {0, TailFixes}, m \in AllMoves }

\* every combination of rawtime and altitude profiles and of log lengths
ValidationLogs ==
    { [lead |-> l, tail |-> t, time |-> tp, press |-> pp, gnss |-> gp,
       hrecs |-> << HFDTE(3, 4, 16) >>, moves |-> ZigzagMoves] :
      l \in {LeadFixes - 10, LeadFixes}, t \in {0, TailFixes},
      tp \in TimeProfiles, pp \in AltProfiles, gp \in AltProfiles }

\* every list of H records
MetadataLogs ==
    { [lead |-> LeadFixes, tail |-> TailFixes, time |-> tp, press |-> pp,
       gnss |-> "climb", hrecs |-> h, moves |-> ZigzagMoves] :
      tp \in {"regular", "midnight"}, pp \in {"climb", "flat"}, h \in HRecordLists }

\* a leg of n fixes: straight north, or in zigzags
StraightLeg(n) == [j \in 1..n |-> "N"]
ZigzagLeg(n) == [j \in 1..n |-> IF j % 2 = 1 THEN "N" ELSE "S"]
GroundStop(n) == [j \in 1..n |-> "H"]

\* a first leg, a stop on the ground and a second leg, which ends the log
\* when there is no tail
TouchAndGoLogs ==
    { [lead |-> LeadFixes, tail |-> t, time |-> "regular", press |-> "climb",
       gnss |-> "climb", hrecs |-> << HFDTE(3, 4, 16) >>,
       moves |-> first \o GroundStop(TailFixes) \o second] :
      t \in {0, TailFixes},
      first \in {StraightLeg(TailFixes), ZigzagLeg(TailFixes)},
      second \in {StraightLeg(TailFixes), ZigzagLeg(TailFixes),
                  StraightLeg(TailFixes - 1)} }

\* logs that start in the air: one fix, then the free part, then the ground
AirStartLogs ==
    { [lead |-> 1, tail |-> LeadFixes + FreeFixes - Len(m) + t, time |-> tp,
       press |-> "climb",
       gnss |-> "climb", hrecs |-> << HFDTE(3, 4, 16) >>, moves |-> m] :
      t \in {0, TailFixes}, tp \in {"regular", "setback1"},
      m \in {StraightLeg(FreeFixes), ZigzagLeg(FreeFixes), ZigzagMoves,
              ZigzagLeg(TailFixes) \o StraightLeg(FreeFixes)
                  \o ZigzagLeg(FreeFixes) \o StraightLeg(2)} }

Logs == ShapeLogs \cup ValidationLogs \cup MetadataLogs \cup TouchAndGoLogs
            \cup AirStartLogs

-----------------------------------------------------------------------------
(* igc_lib.py: Flight, the validation stages *)

\* a note: its "Error:" or "Warning:" prefix and the rest of its text
Note(prefix, text) == << prefix, text >>

RECURSIVE SumOver(_, _)
SumOver(f, S) ==
    IF S = {} THEN 0
    ELSE LET x == CHOOSE y \in S : TRUE IN f[x] + SumOver(f, S \ {x})

\* _check_altitudes, the loop `for i in xrange(len(self.fixes) - 1)`; here
\* i is the 1-based position of fixes[i], so the loop is over 1..Len - 1.
\* `rawtime_delta > 0.5` is rawtime_delta >= 1 on whole seconds.
alt_delta(fx, ch, i) == abs(fx[i + 1][ch] - fx[i][ch])
rawtime_delta(fx, i) == abs(fx[i + 1].rawtime - fx[i].rawtime)

is_huge_change(fx, ch, i) ==
    /\ rawtime_delta(fx, i) >= 1
    /\ alt_delta(fx, ch, i) > max_alt_change_rate * rawtime_delta(fx, i)

huge_changes_num(fx, ch) ==
    Cardinality({i \in 1..(Len(fx) - 1) : is_huge_change(fx, ch, i)})

chgs_sum(fx, ch) ==
    SumOver([i \in 1..(Len(fx) - 1) |-> alt_delta(fx, ch, i)],
            {i \in 1..(Len(fx) - 1) :
                rawtime_delta(fx, i) >= 1 /\ ~is_huge_change(fx, ch, i)})

alt_violations_num(fx, ch) ==
    Cardinality({i \in 1..(Len(fx) - 1) :
                    fx[i][ch] > max_alt \/ fx[i][ch] < min_alt})

\* `chgs_avg < min_avg_abs_alt_change`, with chgs_avg = chgs_sum / (n - 1)
\* in metres and the minimum 0.01 m
avg_change_too_low(fx, ch) ==
    100 * chgs_sum(fx, ch) < min_avg_abs_alt_change_cm * (Len(fx) - 1)

\* mutant: the notes of a rejected channel are errors
alt_warnings_as_errors(fx, ch, name) ==
    IF avg_change_too_low(fx, ch) \/ alt_violations_num(fx, ch) > 0
       \/ huge_changes_num(fx, ch) > max_alt_change_violations
    THEN << Note("Error:", name \o " altitude is not valid") >>
    ELSE <<>>

\* the warnings of one channel, in the order the code appends them
alt_warnings(fx, ch, name) ==
    (IF avg_change_too_low(fx, ch)
        THEN << Note("Warning:", "average " \o name \o " altitude change is lower than the minimum") >>
        ELSE <<>>)
    \o (IF huge_changes_num(fx, ch) > max_alt_change_violations
        THEN << Note("Warning:", "too many high changes in " \o name \o " altitude") >>
        ELSE <<>>)
    \o (IF alt_violations_num(fx, ch) > 0
        THEN << Note("Warning:", name \o " altitude limits exceeded") >>
        ELSE <<>>)

\* press_alt_ok / gnss_alt_ok
alt_ok(fx, ch) ==
    /\ ~avg_change_too_low(fx, ch)
    /\ ~(huge_changes_num(fx, ch) > max_alt_change_violations)
    /\ ~(alt_violations_num(fx, ch) > 0)

\* _check_fix_rawtime, the loop `for i in xrange(1, len(self.fixes))`: one
\* iteration for the fix at 1-based position i (i >= 2), f0 being the already
\* corrected fix before it.  The 1e-5 margins vanish on whole seconds.
\* mutant: an interval below min_seconds_between_fixes is not counted
RECURSIVE rawtime_walk_no_min(_, _, _)
rawtime_walk_no_min(fx, i, acc) ==
    IF i > Len(fx) THEN [fixes |-> fx] @@ acc
    ELSE LET f0 == fx[i - 1]
             shifted == fx[i].rawtime + acc.rawtime_to_add
             day_switch == f0.rawtime > shifted /\ shifted + DAY < f0.rawtime + 200
             f1_rawtime == IF day_switch THEN shifted + DAY ELSE shifted
             time_change == f1_rawtime - f0.rawtime
         IN rawtime_walk_no_min(
                [fx EXCEPT ![i].rawtime = f1_rawtime], i + 1,
                [days_added |-> acc.days_added + (IF day_switch THEN 1 ELSE 0),
                 rawtime_to_add |-> acc.rawtime_to_add + (IF day_switch THEN DAY ELSE 0),
                 rawtime_between_fix_exceeded |->
                     acc.rawtime_between_fix_exceeded
                     + (IF time_change > max_seconds_between_fixes THEN 1 ELSE 0)])

RECURSIVE rawtime_walk(_, _, _)
rawtime_walk(fx, i, acc) ==
    IF i > Len(fx) THEN [fixes |-> fx] @@ acc
    ELSE LET f0 == fx[i - 1]
             shifted == fx[i].rawtime + acc.rawtime_to_add
             day_switch == f0.rawtime > shifted /\ shifted + DAY < f0.rawtime + 200
             f1_rawtime == IF day_switch THEN shifted + DAY ELSE shifted
             time_change == f1_rawtime - f0.rawtime
         IN rawtime_walk(
                [fx EXCEPT ![i].rawtime = f1_rawtime], i + 1,
                [days_added |-> acc.days_added + (IF day_switch THEN 1 ELSE 0),
                 rawtime_to_add |-> acc.rawtime_to_add + (IF day_switch THEN DAY ELSE 0),
                 rawtime_between_fix_exceeded |->
                     acc.rawtime_between_fix_exceeded
                     + (IF time_change < min_seconds_between_fixes THEN 1 ELSE 0)
                     + (IF time_change > max_seconds_between_fixes THEN 1 ELSE 0)])

\* _check_fix_rawtime that counts the days and leaves the rawtimes alone
check_fix_rawtime_no_shift(fx) ==
    [rawtime_walk(fx, 2, [days_added |-> 0, rawtime_to_add |-> 0,
                          rawtime_between_fix_exceeded |-> 0]) EXCEPT !.fixes = fx]

check_fix_rawtime(fx) ==
    rawtime_walk(fx, 2, [days_added |-> 0, rawtime_to_add |-> 0,
                         rawtime_between_fix_exceeded |-> 0])

-----------------------------------------------------------------------------
(* igc_lib.py: metadata, derived fields, classification, segmentation *)

\* datetime.datetime(year, month, day): the days of a month
is_leap(year) == year % 4 = 0 /\ (year % 100 # 0 \/ year % 400 = 0)

days_in_month(year, month) ==
    CASE month \in {4, 6, 9, 11} -> 30
      [] month = 2 -> IF is_leap(year) THEN 29 ELSE 28
      [] OTHER -> 31

RECURSIVE days_before_month(_, _)
days_before_month(year, month) ==
    IF month = 1 THEN 0
    ELSE days_before_month(year, month - 1) + days_in_month(year, month - 1)

\* (date - epoch).total_seconds() for the epoch 1970-01-01
leap_years_before(year) == (year - 1) \div 4 - (year - 1) \div 100 + (year - 1) \div 400

total_seconds(year, month, day) ==
    ( 365 * (year - 1970) + leap_years_before(year) - leap_years_before(1970)
      + days_before_month(year, month) + day - 1 ) * DAY

\* the outcome of parsing H records: whether self.date_timestamp is set, its
\* value, and the exception raised ("" when none)
DateResult(is_set, value, raised) == [is_set |-> is_set, value |-> value, raised |-> raised]

\* _parse_h_record for one record, `date` being the outcome so far;
\* datetime.datetime() raises ValueError for a day the month does not have
parse_h_record(record, date) ==
    IF record.tag = "HFDTE" /\ record.matched
       /\ 1 <= record.mm /\ record.mm <= 12 /\ 1 <= record.dd /\ record.dd <= 31
    THEN IF record.dd > days_in_month(2000 + record.yy, record.mm)
            THEN DateResult(date.is_set, date.value, "ValueError")
            ELSE DateResult(TRUE, total_seconds(2000 + record.yy, record.mm, record.dd), "")
    ELSE date

\* _parse_h_records: the records in order; an exception ends the loop
RECURSIVE parse_h_records(_, _, _)
parse_h_records(records, i, date) ==
    IF i > Len(records) \/ date.raised # "" THEN date
    ELSE parse_h_records(records, i + 1, parse_h_record(records[i], date))

\* GNSSFix.set_flight that leaves the fix without alt and timestamp
set_flight_no_attrs(fix, source, date_timestamp) == fix

\* GNSSFix.set_flight
set_flight(fix, source, date_timestamp) ==
    [fix EXCEPT !.attrs = @ \cup {"alt", "timestamp"},
                !.alt = IF source = "PRESS" THEN fix.press_alt ELSE fix.gnss_alt,
                !.timestamp = fix.rawtime + date_timestamp]

\* lib/geo.py earth_distance for two points of one meridian, in millimetres:
\* EARTH_RADIUS_KM * |dlat| with dlat in radians, that is 1.853 m for each
\* thousandth of an arc minute
MillimetresPerUnit == 1853
earth_distance(lat1, lat2) == abs(lat2 - lat1) * MillimetresPerUnit

\* GNSSFix.distance_to
distance_to(fix, other) == earth_distance(fix.lat, other.lat)

\* lib/geo.py bearing_to for two points of one meridian, in degrees:
\* atan2(0, x) is 0 for x >= 0 (north, or the same point) and 180 for x < 0
bearing_to(fix, other) == IF other.lat >= fix.lat THEN 0 ELSE 180

\* x / y of two integers truncated toward zero, y # 0
quotient(x, y) ==
    IF (x < 0) = (y < 0) THEN abs(x) \div abs(y) ELSE -(abs(x) \div abs(y))

\* _compute_ground_speeds: gsp in metres per hour (dist / rawtime * 3600 km/h)
ground_speed(fx, i) ==
    IF i = 1 THEN 0
    ELSE LET dist == distance_to(fx[i], fx[i - 1])
             rawtime == fx[i].rawtime - fx[i - 1].rawtime
         IN IF rawtime = 0 THEN 0 ELSE quotient(dist * 36, rawtime * 10)

compute_ground_speeds(fx) ==
    [i \in 1..Len(fx) |-> [fx[i] EXCEPT !.gsp = ground_speed(fx, i), !.attrs = @ \cup {"gsp"}]]

\* math.log of a probability given in ten-thousandths, in units of 1/10000
log(p) ==
    CASE p = 8000 -> -2231   [] p = 2000 -> -16094
      [] p = 9926 -> -74     [] p = 74   -> -49063
      [] p = 3    -> -81117  [] p = 9997 -> -3
      [] p = 9740 -> -263    [] p = 260  -> -36497
      [] p = 310  -> -34738  [] p = 9690 -> -315
      [] p = 9820 -> -182    [] p = 180  -> -40174
      [] p = 300  -> -35066  [] p = 9700 -> -305
      [] p = 9420 -> -598    [] p = 580  -> -28473
      [] p = 930  -> -23752  [] p = 9070 -> -976
      [] p = 5000 -> -6931   [] p = 9000 -> -1054
      [] p = 1000 -> -23026  [] p = 7000 -> -3567
      [] p = 3000 -> -12040

log_row(row) == << log(row[1]), log(row[2]) >>

\* SimpleViterbiDecoder(init_probs, transition_probs, emission_probs).decode(e)
\* on a decoder constructed for this one call
decode_with(init_probs, transition_probs, emission_probs, e) ==
    decode(log_row(init_probs),
           << log_row(transition_probs[1]), log_row(transition_probs[2]) >>,
           << log_row(emission_probs[1]), log_row(emission_probs[2]) >>, e)

\* _flying_emissions
flying_emissions(fx) ==
    [i \in 1..Len(fx) |-> IF fx[i].gsp > min_gsp_flight * 1000 THEN 1 ELSE 0]

\* _compute_flight
compute_flight(fx) ==
    LET output == decode_with(<<8000, 2000>>,
                              << <<9926, 74>>, <<3, 9997>> >>,
                              << <<9740, 260>>, <<310, 9690>> >>,
                              flying_emissions(fx))
    IN [i \in 1..Len(fx) |-> [fx[i] EXCEPT !.flying = (output[i] = 1), !.attrs = @ \cup {"flying"}]]

\* _compute_takeoff_landing, the loop: takeoff_fix and landing_fix as 1-based
\* positions, NoFix when not found
\* mutant: takeoff_fix is overwritten by every flying fix
RECURSIVE takeoff_landing_walk_last(_, _, _, _, _)
takeoff_landing_walk_last(fx, i, takeoff, landing, was_flying) ==
    IF i > Len(fx) THEN [takeoff |-> takeoff, landing |-> landing]
    ELSE takeoff_landing_walk_last(
             fx, i + 1,
             IF fx[i].flying THEN i ELSE takeoff,
             IF ~fx[i].flying /\ was_flying THEN i ELSE landing,
             fx[i].flying)

RECURSIVE takeoff_landing_walk(_, _, _, _, _)
takeoff_landing_walk(fx, i, takeoff, landing, was_flying) ==
    IF i > Len(fx) THEN [takeoff |-> takeoff, landing |-> landing]
    ELSE takeoff_landing_walk(
             fx, i + 1,
             IF fx[i].flying /\ takeoff = NoFix THEN i ELSE takeoff,
             IF ~fx[i].flying /\ was_flying THEN i ELSE landing,
             fx[i].flying)

\* _compute_takeoff_landing: whether takeoff_fix and landing_fix are set,
\* and the indices of the two fixes
compute_takeoff_landing(fx) ==
    LET w == takeoff_landing_walk(fx, 1, NoFix, NoFix, FALSE)
    IN IF w.takeoff = NoFix THEN [found |-> FALSE, takeoff_fix |-> 0, landing_fix |-> 0]
       ELSE [found |-> TRUE,
             takeoff_fix |-> fx[w.takeoff].index,
             landing_fix |-> IF w.landing = NoFix THEN fx[Len(fx)].index
                             ELSE fx[w.landing].index]

\* _compute_bearings
compute_bearings(fx) ==
    LET n == Len(fx)
    IN [i \in 1..n |->
          [fx[i] EXCEPT !.bearing = IF i < n THEN bearing_to(fx[i], fx[i + 1])
                                    ELSE bearing_to(fx[n - 1], fx[n]),
                        !.attrs = @ \cup {"bearing"}]]

\* find_prev_fix: `for i in xrange(curr_fix - 1, 0, -1)` looks at the Python
\* indices curr_fix - 1 down to 1, the 1-based positions curr - 1 down to 2.
\* `time_dist > min_time_for_bearing_change - 1e-7` is >= on whole seconds.
RECURSIVE find_prev_fix_from(_, _, _)
find_prev_fix_from(fx, curr, i) ==
    IF i < 2 THEN NoFix
    ELSE IF abs(fx[curr].timestamp - fx[i].timestamp) >= min_time_for_bearing_change
         THEN i
         ELSE find_prev_fix_from(fx, curr, i - 1)

find_prev_fix(fx, curr) == find_prev_fix_from(fx, curr, curr - 1)

\* the bearing change rate of the fix at position curr, in thousandths of a
\* degree per second
bearing_change_rate(fx, curr) ==
    LET prev == find_prev_fix(fx, curr)
    IN IF prev = NoFix THEN 0
       ELSE LET raw_change == fx[prev].bearing - fx[curr].bearing
                bearing_change ==
                    IF abs(raw_change) > 180
                    THEN IF raw_change < 0 THEN raw_change + 360 ELSE raw_change - 360
                    ELSE raw_change
                time_change == fx[prev].timestamp - fx[curr].timestamp
            IN quotient(bearing_change * 1000, time_change)

\* _compute_bearing_change_rates
compute_bearing_change_rates(fx) ==
    [i \in 1..Len(fx) |-> [fx[i] EXCEPT !.bearing_change_rate = bearing_change_rate(fx, i),
                              !.attrs = @ \cup {"bearing_change_rate"}]]

\* _circling_emissions
circling_emissions(fx) ==
    [i \in 1..Len(fx) |->
        IF fx[i].flying
           /\ abs(fx[i].bearing_change_rate) > min_bearing_change_circling * 1000
        THEN 1 ELSE 0]

\* _compute_circling
compute_circling(fx) ==
    LET output == decode_with(<<8000, 2000>>,
                              << <<9820, 180>>, <<300, 9700>> >>,
                              << <<9420, 580>>, <<930, 9070>> >>,
                              circling_emissions(fx))
    IN [i \in 1..Len(fx) |-> [fx[i] EXCEPT !.circling = (output[i] = 1), !.attrs = @ \cup {"circling"}]]

\* Thermal and Glide objects hold their fixes by index
Thermal(enter_fix, exit_fix) == [enter_fix |-> enter_fix, exit_fix |-> exit_fix]
Glide(enter_fix, exit_fix, track_length) ==
    [enter_fix |-> enter_fix, exit_fix |-> exit_fix, track_length |-> track_length]

\* the fix with a given index
FixAt(fx, index) == fx[index + 1]

\* the outcome of a method: the exception it raises ("" when none) and the
\* number it returns
Returns(value) == [raised |-> "", value |-> value]
Raises(exception) == [raised |-> exception, value |-> 0]

\* Thermal.alt_change, metres
thermal_alt_change(fx, thermal) ==
    FixAt(fx, thermal.exit_fix).alt - FixAt(fx, thermal.enter_fix).alt

\* Glide.time_change, on timestamp
glide_time_change(fx, glide) ==
    FixAt(fx, glide.exit_fix).timestamp - FixAt(fx, glide.enter_fix).timestamp

\* Glide.alt_change, metres
glide_alt_change(fx, glide) ==
    FixAt(fx, glide.enter_fix).alt - FixAt(fx, glide.exit_fix).alt

\* Glide.speed: track_length / (time_change / 3600.0), a float division that
\* raises ZeroDivisionError for a zero divisor; here in metres per hour
glide_speed(fx, glide) ==
    IF glide_time_change(fx, glide) = 0 THEN Raises("ZeroDivisionError")
    ELSE Returns(quotient(glide.track_length * 36, glide_time_change(fx, glide) * 10))

\* Glide.glide_ratio, here in thousandths
glide_ratio(fx, glide) ==
    IF glide_alt_change(fx, glide) = 0 THEN Returns(0)
    ELSE Returns(quotient(glide.track_length, glide_alt_change(fx, glide)))

\* Thermal.time_change, on rawtime
thermal_time_change(fx, thermal) ==
    FixAt(fx, thermal.exit_fix).rawtime - FixAt(fx, thermal.enter_fix).rawtime

\* Thermal.vertical_velocity, here in millimetres per second
vertical_velocity(fx, thermal) ==
    IF thermal_time_change(fx, thermal) = 0 THEN Returns(0)
    ELSE Returns(quotient(thermal_alt_change(fx, thermal) * 1000,
                          thermal_time_change(fx, thermal)))

\* mutant: every circling run is long enough for a thermal
long_enough_always(fx, thermal) == TRUE

\* `thermal.time_change() > min_time_for_thermal - 1e-5`, on whole seconds
long_enough(fx, thermal) == thermal_time_change(fx, thermal) >= min_time_for_thermal

\* _find_thermals, the loop body for the fix at position i of self.fixes; st
\* holds the local variables and the two lists (fixes are held by position).
find_thermals_step(fx, i, st) ==
    LET fix == fx[i]
        started == ~st.circling_now /\ fix.circling
        ended == st.circling_now /\ ~fix.circling
        thermal == Thermal(fx[st.first_fix].index, fix.index)
        commit == ended /\ long_enough(fx, thermal)
        st1 == IF started
               THEN [st EXCEPT !.circling_now = TRUE, !.first_fix = i,
                               !.distance_start_circling = st.distance]
               ELSE IF ended
               THEN IF commit
                    THEN [st EXCEPT !.circling_now = FALSE,
                                    !.thermals = Append(st.thermals, thermal),
                                    !.glides = Append(st.glides,
                                        Glide(fx[st.first_glide_fix].index,
                                              fx[st.first_fix].index,
                                              st.distance_start_circling)),
                                    !.gliding_now = FALSE]
                    ELSE [st EXCEPT !.circling_now = FALSE]
               ELSE st
    IN IF st1.gliding_now
       THEN [st1 EXCEPT !.distance = st1.distance + distance_to(fix, fx[st1.last_glide_fix]),
                        !.last_glide_fix = i]
       ELSE [st1 EXCEPT !.first_glide_fix = i, !.last_glide_fix = i,
                        !.gliding_now = TRUE, !.distance = 0]

RECURSIVE find_thermals_walk(_, _, _, _)
find_thermals_walk(fx, i, last, st) ==
    IF i > last THEN st
    ELSE find_thermals_walk(fx, i + 1, last, find_thermals_step(fx, i, st))

\* the local variables of _find_thermals before its loop
find_thermals_start ==
    [thermals |-> <<>>, glides |-> <<>>, circling_now |-> FALSE,
     gliding_now |-> FALSE, first_fix |-> NoFix, first_glide_fix |-> NoFix,
     last_glide_fix |-> NoFix, distance |-> 0, distance_start_circling |-> 0]

\* mutant: the glide still open after the loop is not appended
find_thermals_unclosed(fx, takeoff_index, landing_index) ==
    LET st == find_thermals_walk(fx, takeoff_index + 1, landing_index + 1,
                                 find_thermals_start)
    IN [thermals |-> st.thermals, glides |-> st.glides]

\* mutant: the loop runs over self.fixes[takeoff_index:], past the landing
find_thermals_past_landing(fx, takeoff_index, landing_index) ==
    LET st == find_thermals_walk(fx, takeoff_index + 1, Len(fx), find_thermals_start)
    IN [thermals |-> st.thermals,
        glides |-> IF st.gliding_now
                   THEN Append(st.glides, Glide(fx[st.first_glide_fix].index,
                                                fx[st.last_glide_fix].index, st.distance))
                   ELSE st.glides]

\* the glide still open after the loop, appended to the glides
closed_glides(fx, st) ==
    IF st.gliding_now
    THEN Append(st.glides, Glide(fx[st.first_glide_fix].index,
                                 fx[st.last_glide_fix].index, st.distance))
    ELSE st.glides

\* mutant: the loop runs over self.fixes[takeoff_index + 1:landing_index + 1]
find_thermals_after_takeoff(fx, takeoff_index, landing_index) ==
    LET st == find_thermals_walk(fx, takeoff_index + 2, landing_index + 1,
                                 find_thermals_start)
    IN [thermals |-> st.thermals, glides |-> closed_glides(fx, st)]

\* mutant: a circling run still open after the loop is committed as a thermal
\* that exits at the last fix of the loop
find_thermals_closing_run(fx, takeoff_index, landing_index) ==
    LET st == find_thermals_walk(fx, takeoff_index + 1, landing_index + 1,
                                 find_thermals_start)
    IN IF st.circling_now
       THEN [thermals |-> Append(st.thermals,
                                 Thermal(fx[st.first_fix].index, landing_index)),
             glides |-> Append(st.glides,
                               Glide(fx[st.first_glide_fix].index,
                                     fx[st.first_fix].index,
                                     st.distance_start_circling))]
       ELSE [thermals |-> st.thermals, glides |-> closed_glides(fx, st)]

\* _find_thermals: self.thermals and self.glides
find_thermals(fx, takeoff_index, landing_index) ==
    LET st == find_thermals_walk(fx, takeoff_index + 1, landing_index + 1,
                                 find_thermals_start)
    IN [thermals |-> st.thermals,
        glides |-> IF st.gliding_now
                   THEN Append(st.glides, Glide(fx[st.first_glide_fix].index,
                                                fx[st.last_glide_fix].index, st.distance))
                   ELSE st.glides]

-----------------------------------------------------------------------------
(* State *)

VARIABLES
    \* --- one SimpleViterbiDecoder instance and its last decode() call ---
    init_log,          \* self._init_log
    transition_log,    \* self._transition_log
    emission_log,      \* self._emission_log
    new_init_log,      \* self._init_log as __init__ left it (history)
    calls,             \* number of decode() calls made on the instance
    emissions,         \* argument of the last call
    states,            \* result of the last call
    state_log,         \* local table of the last call
    backtrack_info,    \* local table of the last call
    test,              \* the test method that owns the instance, "" when none
    \* --- one Flight under construction ---
    pc,                \* the statement of Flight.__init__ to run next
    log_fixes,         \* the fixes as passed to Flight() (history)
    h_records,         \* the H records passed to Flight()
    fixes,             \* self.fixes
    valid,             \* self.valid
    notes,             \* self.notes
    attrs,             \* the attributes of the Flight set so far, of those below
    press_alt_valid,   \* self.press_alt_valid
    gnss_alt_valid,    \* self.gnss_alt_valid
    alt_source,        \* self.alt_source
    date_timestamp,    \* self.date_timestamp
    takeoff_fix,       \* self.takeoff_fix, by index
    landing_fix,       \* self.landing_fix, by index
    thermals,          \* self.thermals
    glides,            \* self.glides
    raised,            \* the exception Flight() ended with, "" when none
    \* --- one Task.check_flight(flight) call, replaying flight.fixes ---
    turnpoints,        \* self.turnpoints
    start_time,        \* self.start_time
    end_time,          \* self.end_time
    replayed,          \* number of fixes the loop has taken from flight.fixes
    t,                 \* local t, the index of the current turnpoint
    proceed_to_start,  \* local proceed_to_start
    reached_turnpoints,\* local reached_turnpoints, fixes by index
    task_pc,           \* "none", "replay", "returned" or "raised"
    \* --- one Flight.create_from_file call, and one B-record round trip ---
    lines,             \* the lines of the file
    read,              \* number of lines the loop has taken from the file
    a_records,         \* local a_records
    i_records,         \* local i_records
    record_out,        \* what to_B_record returned for fixes[0]
    reparsed           \* what build_from_B_record returned for record_out

decoder_vars == << init_log, transition_log, emission_log, new_init_log, calls,
                   emissions, states, state_log, backtrack_info, test >>

flight_vars == << pc, log_fixes, h_records, fixes, valid, notes, attrs,
                  press_alt_valid, gnss_alt_valid, alt_source, date_timestamp,
                  takeoff_fix, landing_fix, thermals, glides, raised >>

task_vars == << turnpoints, start_time, end_time, replayed, t, proceed_to_start,
                reached_turnpoints, task_pc >>

file_vars == << lines, read, a_records, i_records, record_out, reparsed >>

vars == << decoder_vars, flight_vars, task_vars, file_vars >>

\* none of the attributes the constructor sets later exists yet
NoAttrs ==
    /\ attrs = {}
    /\ press_alt_valid = FALSE
    /\ gnss_alt_valid = FALSE
    /\ alt_source = ""
    /\ date_timestamp = 0
    /\ takeoff_fix = 0
    /\ landing_fix = 0
    /\ thermals = <<>>
    /\ glides = <<>>
    /\ raised = ""

\* no Flight is constructed
NoFlight ==
    /\ pc = "none"
    /\ log_fixes = <<>>
    /\ h_records = <<>>
    /\ fixes = <<>>
    /\ valid = FALSE
    /\ notes = <<>>
    /\ NoAttrs

\* no stand-alone decoder is used
NoDecoder ==
    /\ init_log = <<>>
    /\ transition_log = <<>>
    /\ emission_log = <<>>
    /\ new_init_log = <<>>
    /\ calls = 0
    /\ emissions = <<>>
    /\ states = <<>>
    /\ state_log = <<>>
    /\ backtrack_info = <<>>
    /\ test = ""

\* no task is checked
NoTask ==
    /\ turnpoints = <<>>
    /\ start_time = 0
    /\ end_time = 0
    /\ replayed = 0
    /\ t = 0
    /\ proceed_to_start = FALSE
    /\ reached_turnpoints = <<>>
    /\ task_pc = "none"

\* no file is read
NoFile ==
    /\ lines = <<>>
    /\ read = 0
    /\ a_records = <<>>
    /\ i_records = <<>>
    /\ record_out = <<>>
    /\ reparsed = <<>>

-----------------------------------------------------------------------------
(* The decoder on its own: any model, any emission sequences *)

\* log-probability rows the stand-alone decoder is constructed with
LogRows == { <<-1, -1>>, <<-1, -2>>, <<-2, -1>>, <<-1, -3>> }
TransitionRows == { <<-1, -2>>, <<-2, -1>> }

\* SimpleViterbiDecoder.__init__
InitDecoder ==
    /\ init_log \in LogRows
    /\ new_init_log = init_log
    /\ transition_log \in { <<a, b>> : a \in TransitionRows, b \in TransitionRows }
    /\ emission_log \in { << <<-1, -2>>, <<-2, -1>> >>, << <<-1, -3>>, <<-2, -1>> >>,
                          << <<-1, -1>>, <<-1, -1>> >> }
    /\ calls = 0
    /\ emissions = <<>>
    /\ states = <<>>
    /\ state_log = <<>>
    /\ backtrack_info = <<>>
    /\ test = ""
    /\ NoFlight
    /\ NoTask
    /\ NoFile

\* SimpleViterbiDecoder.decode(e) on the instance.  `state_log[0] =
\* self._init_log` binds the first row to the instance's own list, and the
\* two `+=` that follow update that list in place.
decode_call(e) ==
    /\ calls' = calls + 1
    /\ emissions' = e
    /\ UNCHANGED << transition_log, emission_log, new_init_log, test, flight_vars,
                    task_vars, file_vars >>
    /\ IF e = <<>>
         THEN /\ states' = <<>>
              /\ state_log' = <<>>
              /\ backtrack_info' = <<>>
              /\ UNCHANGED init_log
         ELSE LET r == decode_run(init_log, transition_log, emission_log, e)
              IN /\ states' = r.states
                 /\ state_log' = r.state_log
                 /\ backtrack_info' = r.backtrack_info
                 /\ init_log' = r.state_log[1]

\* one decode() call on the instance, with any emissions
Decode(e) == calls < MaxCalls /\ decode_call(e)

NextDecoder == \E e \in SeqsUpTo({0, 1}, MaxLen) : Decode(e)

SpecDecoder == InitDecoder /\ [][NextDecoder]_vars

-----------------------------------------------------------------------------
(* lib/test_viterbi.py: the decoder under its canonical test parameters *)

\* a list of n copies of x
RECURSIVE Repeat(_, _)
Repeat(x, n) == IF n = 0 THEN <<>> ELSE Append(Repeat(x, n - 1), x)

\* `range(20)` of testSimpleDecodeZeros and testSimpleDecodeOnes: the number
\* of assertDecode calls of one test and the bound of their lengths
ReferenceRange == 20

\* the data of the three fixed tests
MixedData == Repeat(0, 6) \o Repeat(1, 7)
FluctuationsZerosData == << 1, 0, 0, 0, 1, 1, 0, 0, 0 >>
FluctuationsOnesData == << 1, 0, 1, 1, 0, 0, 1, 1, 1 >>

TestMethods ==
    { "testEmptyDecode", "testSimpleDecodeZeros", "testSimpleDecodeOnes",
      "testMixedIdentityDecode", "testIgnoresSmallFluctuationsZeros",
      "testIgnoresSmallFluctuationsOnes" }

\* setUp, before one test method
setUp ==
    /\ test \in TestMethods
    /\ init_log = log_row(<< 5000, 5000 >>)
    /\ new_init_log = init_log
    /\ transition_log = << log_row(<< 9000, 1000 >>), log_row(<< 1000, 9000 >>) >>
    /\ emission_log = << log_row(<< 7000, 3000 >>), log_row(<< 3000, 7000 >>) >>
    /\ calls = 0
    /\ emissions = <<>>
    /\ states = <<>>
    /\ state_log = <<>>
    /\ backtrack_info = <<>>
    /\ NoFlight
    /\ NoTask
    /\ NoFile

\* assertDecode: result = self.decoder.decode(emissions)
assertDecode(e) == decode_call(e)

\* the loops of testSimpleDecodeZeros and testSimpleDecodeOnes; the lengths
\* come in any order
SimpleDecodeConstant ==
    /\ test \in {"testSimpleDecodeZeros", "testSimpleDecodeOnes"}
    /\ calls < ReferenceRange
    /\ \E i \in 0..(ReferenceRange - 1) :
          assertDecode(Repeat(IF test = "testSimpleDecodeZeros" THEN 0 ELSE 1, i))

\* the tests that decode one list
DecodeOnce ==
    /\ calls = 0
    /\ \/ test = "testEmptyDecode" /\ assertDecode(<<>>)
       \/ test = "testMixedIdentityDecode" /\ assertDecode(MixedData)
       \/ test = "testIgnoresSmallFluctuationsZeros" /\ assertDecode(FluctuationsZerosData)
       \/ test = "testIgnoresSmallFluctuationsOnes" /\ assertDecode(FluctuationsOnesData)

NextReference == SimpleDecodeConstant \/ DecodeOnce

SpecReference == setUp /\ [][NextReference]_vars

-----------------------------------------------------------------------------
(* Flight.__init__, one action per statement of the constructor *)

\* Flight(fixes, a_records, h_records, i_records, config) is called:
\* lines 615-618.  A and I records only fill string attributes and are left out.
Init ==
    /\ NoDecoder
    /\ NoTask
    /\ NoFile
    /\ \E sc \in Logs :
          /\ log_fixes = LogFixes(sc)
          /\ h_records = sc.hrecs
    /\ fixes = log_fixes
    /\ valid = TRUE
    /\ notes = <<>>
    /\ NoAttrs
    /\ pc = "min_fixes"

\* lines 619-624
CheckMinFixes ==
    /\ pc = "min_fixes"
    /\ IF Len(fixes) < min_fixes
         THEN /\ notes' = Append(notes, Note("Error:", "This file has less fixes than the minimum"))
              /\ valid' = FALSE
              /\ pc' = "done"
         ELSE /\ pc' = "check_altitudes"
              /\ UNCHANGED << notes, valid >>
    /\ UNCHANGED << log_fixes, h_records, fixes, attrs, press_alt_valid, gnss_alt_valid,
                    alt_source, date_timestamp, takeoff_fix, landing_fix, thermals,
                    glides, raised, decoder_vars, task_vars, file_vars >>

\* lines 626-628: self._check_altitudes(); if not self.valid: return
CheckAltitudes ==
    /\ pc = "check_altitudes"
    /\ notes' = notes \o alt_warnings(fixes, "press_alt", "pressure")
                      \o alt_warnings(fixes, "gnss_alt", "gnss")
    /\ press_alt_valid' = alt_ok(fixes, "press_alt")
    /\ gnss_alt_valid' = alt_ok(fixes, "gnss_alt")
    /\ attrs' = attrs \cup {"press_alt_valid", "gnss_alt_valid"}
    /\ pc' = IF valid THEN "check_fix_rawtime" ELSE "done"
    /\ UNCHANGED << log_fixes, h_records, fixes, valid, alt_source, date_timestamp,
                    takeoff_fix, landing_fix, thermals, glides, raised, decoder_vars, task_vars, file_vars >>

\* mutant: the `if not self.valid: return` after _check_fix_rawtime is missing
CheckFixRawtime_no_return ==
    /\ pc = "check_fix_rawtime"
    /\ LET r == check_fix_rawtime(fixes)
           too_many_violations == r.rawtime_between_fix_exceeded > max_time_violations
           too_many_days == r.days_added > max_new_days_in_flight
       IN /\ fixes' = r.fixes
          /\ notes' = notes
                \o (IF too_many_violations
                      THEN << Note("Error:", "too many fixes intervals exceed time between fixes constraints") >>
                      ELSE <<>>)
                \o (IF too_many_days
                      THEN << Note("Error:", "too many times did the flight cross the UTC 0:00 barrier") >>
                      ELSE <<>>)
          /\ valid' = (valid /\ ~too_many_violations /\ ~too_many_days)
          /\ pc' = "alt_source"
    /\ UNCHANGED << log_fixes, h_records, attrs, press_alt_valid, gnss_alt_valid,
                    alt_source, date_timestamp, takeoff_fix, landing_fix, thermals,
                    glides, raised, decoder_vars, task_vars, file_vars >>

\* lines 630-632: self._check_fix_rawtime(); if not self.valid: return
CheckFixRawtime ==
    /\ pc = "check_fix_rawtime"
    /\ LET r == check_fix_rawtime(fixes)
           too_many_violations == r.rawtime_between_fix_exceeded > max_time_violations
           too_many_days == r.days_added > max_new_days_in_flight
       IN /\ fixes' = r.fixes
          /\ notes' = notes
                \o (IF too_many_violations
                      THEN << Note("Error:", "too many fixes intervals exceed time between fixes constraints") >>
                      ELSE <<>>)
                \o (IF too_many_days
                      THEN << Note("Error:", "too many times did the flight cross the UTC 0:00 barrier") >>
                      ELSE <<>>)
          /\ valid' = (valid /\ ~too_many_violations /\ ~too_many_days)
          /\ pc' = IF valid' THEN "alt_source" ELSE "done"
    /\ UNCHANGED << log_fixes, h_records, attrs, press_alt_valid, gnss_alt_valid,
                    alt_source, date_timestamp, takeoff_fix, landing_fix, thermals,
                    glides, raised, decoder_vars, task_vars, file_vars >>

\* lines 634-642
ChooseAltSource ==
    /\ pc = "alt_source"
    /\ IF press_alt_valid
         THEN /\ alt_source' = "PRESS"
              /\ attrs' = attrs \cup {"alt_source"}
              /\ pc' = "parse_records"
              /\ UNCHANGED << notes, valid >>
         ELSE IF gnss_alt_valid
         THEN /\ alt_source' = "GNSS"
              /\ attrs' = attrs \cup {"alt_source"}
              /\ pc' = "parse_records"
              /\ UNCHANGED << notes, valid >>
         ELSE /\ notes' = Append(notes, Note("Error:", "neither pressure nor gnss altitude is valid."))
              /\ valid' = FALSE
              /\ pc' = "done"
              /\ UNCHANGED << alt_source, attrs >>
    /\ UNCHANGED << log_fixes, h_records, fixes, press_alt_valid, gnss_alt_valid,
                    date_timestamp, takeoff_fix, landing_fix, thermals, glides,
                    raised, decoder_vars, task_vars, file_vars >>

\* lines 644-654: the A, I and H records are parsed, then
\* `if not hasattr(self, 'date_timestamp')`.  An exception raised by
\* _parse_h_record leaves the constructor.
ParseRecords ==
    /\ pc = "parse_records"
    /\ LET date == parse_h_records(h_records, 1, DateResult(FALSE, 0, ""))
       IN /\ date_timestamp' = date.value
          /\ attrs' = IF date.is_set THEN attrs \cup {"date_timestamp"} ELSE attrs
          /\ raised' = date.raised
          /\ IF date.raised # ""
               THEN /\ pc' = "raised"
                    /\ UNCHANGED << notes, valid >>
               ELSE IF ~date.is_set
               THEN /\ notes' = Append(notes, Note("Error:", "no date record (HFDTE) in the file"))
                    /\ valid' = FALSE
                    /\ pc' = "done"
               ELSE /\ pc' = "set_flight"
                    /\ UNCHANGED << notes, valid >>
    /\ UNCHANGED << log_fixes, h_records, fixes, press_alt_valid, gnss_alt_valid,
                    alt_source, takeoff_fix, landing_fix, thermals, glides, decoder_vars, task_vars, file_vars >>

\* what the statements below leave alone
FixesOnly ==
    UNCHANGED << log_fixes, h_records, valid, notes, attrs, press_alt_valid,
                 gnss_alt_valid, alt_source, date_timestamp, takeoff_fix, landing_fix,
                 thermals, glides, raised, decoder_vars, task_vars, file_vars >>

\* lines 656-657: `for fix in self.fixes: fix.set_flight(self)`
SetFlight ==
    /\ pc = "set_flight"
    /\ fixes' = [i \in 1..Len(fixes) |-> set_flight(fixes[i], alt_source, date_timestamp)]
    /\ pc' = "compute_ground_speeds"
    /\ FixesOnly

\* line 659
ComputeGroundSpeeds ==
    /\ pc = "compute_ground_speeds"
    /\ fixes' = compute_ground_speeds(fixes)
    /\ pc' = "compute_flight"
    /\ FixesOnly

\* line 660
ComputeFlight ==
    /\ pc = "compute_flight"
    /\ fixes' = compute_flight(fixes)
    /\ pc' = "compute_takeoff_landing"
    /\ FixesOnly

\* lines 661-665: self._compute_takeoff_landing();
\* `if not hasattr(self, 'takeoff_fix')`
ComputeTakeoffLanding ==
    /\ pc = "compute_takeoff_landing"
    /\ LET r == compute_takeoff_landing(fixes)
       IN IF r.found
            THEN /\ takeoff_fix' = r.takeoff_fix
                 /\ landing_fix' = r.landing_fix
                 /\ attrs' = attrs \cup {"takeoff_fix", "landing_fix"}
                 /\ pc' = "compute_bearings"
                 /\ UNCHANGED << notes, valid >>
            ELSE /\ notes' = Append(notes, Note("Error:", "did not detect takeoff."))
                 /\ valid' = FALSE
                 /\ pc' = "done"
                 /\ UNCHANGED << takeoff_fix, landing_fix, attrs >>
    /\ UNCHANGED << log_fixes, h_records, fixes, press_alt_valid, gnss_alt_valid,
                    alt_source, date_timestamp, thermals, glides, raised, decoder_vars, task_vars, file_vars >>

\* line 667
ComputeBearings ==
    /\ pc = "compute_bearings"
    /\ fixes' = compute_bearings(fixes)
    /\ pc' = "compute_bearing_change_rates"
    /\ FixesOnly

\* line 668
ComputeBearingChangeRates ==
    /\ pc = "compute_bearing_change_rates"
    /\ fixes' = compute_bearing_change_rates(fixes)
    /\ pc' = "compute_circling"
    /\ FixesOnly

\* line 669
ComputeCircling ==
    /\ pc = "compute_circling"
    /\ fixes' = compute_circling(fixes)
    /\ pc' = "find_thermals"
    /\ FixesOnly

\* line 670
FindThermals ==
    /\ pc = "find_thermals"
    /\ LET r == find_thermals(fixes, takeoff_fix, landing_fix)
       IN /\ thermals' = r.thermals
          /\ glides' = r.glides
    /\ attrs' = attrs \cup {"thermals", "glides"}
    /\ pc' = "done"
    /\ UNCHANGED << log_fixes, h_records, fixes, valid, notes, press_alt_valid,
                    gnss_alt_valid, alt_source, date_timestamp, takeoff_fix,
                    landing_fix, raised, decoder_vars, task_vars, file_vars >>

Next ==
    \/ CheckMinFixes
    \/ CheckAltitudes
    \/ CheckFixRawtime
    \/ ChooseAltSource
    \/ ParseRecords
    \/ SetFlight
    \/ ComputeGroundSpeeds
    \/ ComputeFlight
    \/ ComputeTakeoffLanding
    \/ ComputeBearings
    \/ ComputeBearingChangeRates
    \/ ComputeCircling
    \/ FindThermals

Spec == Init /\ [][Next]_vars

-----------------------------------------------------------------------------
(* Claims about the decoder *)

\* joint log-probability (initial + emissions + transitions) of the state
\* sequence s for the emission sequence e
RECURSIVE joint_log(_, _, _, _, _, _)
joint_log(ilog, tlog, elog, e, s, i) ==
    IF i = 0 THEN 0
    ELSE joint_log(ilog, tlog, elog, e, s, i - 1)
         + elog[s[i] + 1][e[i] + 1]
         + (IF i = 1 THEN ilog[s[1] + 1] ELSE tlog[s[i - 1] + 1][s[i] + 1])

\* C8 (as claimed): decoding the same emission sequence twice on the same
\* decoder instance returns the same state sequence.
C8_SameSequenceSameStates ==
    [][(calls >= 1 /\ calls' = calls + 1 /\ emissions' = emissions)
          => states' = states]_vars

\* C9: the first decode() of a freshly constructed decoder returns, for an
\* emission sequence of length N, a sequence of N states in {0, 1} whose joint
\* log-probability is maximal among all 2^N state sequences (for N = 0 the
\* empty sequence).
C9_DecodeIsMaximumLikelihood ==
    calls = 1 =>
        /\ Len(states) = Len(emissions)
        /\ \A i \in 1..Len(states) : states[i] \in {0, 1}
        /\ \A s \in SeqsOfLen({0, 1}, Len(emissions)) :
              joint_log(new_init_log, transition_log, emission_log, emissions, s, Len(s))
              <= joint_log(new_init_log, transition_log, emission_log, emissions,
                           states, Len(states))

\* C9 witness: a fresh decoder has decoded a sequence of full length into a
\* state sequence that changes state, and some other sequence scores lower.
C9_Witness ==
    /\ calls = 1
    /\ Len(emissions) = MaxLen
    /\ \E i \in 2..Len(states) : states[i] # states[i - 1]
    /\ \E s \in SeqsOfLen({0, 1}, Len(emissions)) :
          joint_log(new_init_log, transition_log, emission_log, emissions, s, Len(s))
          < joint_log(new_init_log, transition_log, emission_log, emissions,
                      states, Len(states))

\* a tie between the two predecessors of `target` at step i of the last call
PredecessorTie(i, target) ==
    from_0(state_log[i - 1], transition_log, target)
        = from_1(state_log[i - 1], transition_log, target)

\* a tie between the two terminal states of the last call
TerminalTie ==
    state_log[Len(emissions)][1] = state_log[Len(emissions)][2]

\* C10 (as claimed): ties are broken in favour of state 0, both for the
\* recorded predecessor and for the terminal state.
C10_TiesFavourState0 ==
    (calls >= 1 /\ emissions # <<>>) =>
        /\ \A i \in 2..Len(emissions) : \A target \in {0, 1} :
              PredecessorTie(i, target) => backtrack_info[i][target + 1] = 0
        /\ TerminalTie => states[Len(emissions)] = 0

\* C10 (amended): ties are broken in favour of state 1 (the else branch of
\* the strict `>` comparisons): on equal predecessors the recorded
\* predecessor is 1, on equal terminal values the terminal state is 1.
C10_TiesFavourState1 ==
    (calls >= 1 /\ emissions # <<>>) =>
        /\ \A i \in 2..Len(emissions) : \A target \in {0, 1} :
              PredecessorTie(i, target) => backtrack_info[i][target + 1] = 1
        /\ TerminalTie => states[Len(emissions)] = 1

\* C10 witness: a call with a predecessor tie and a terminal tie.
C10_Witness ==
    /\ calls >= 1
    /\ Len(emissions) >= 2
    /\ \E i \in 2..Len(emissions) : \E target \in {0, 1} : PredecessorTie(i, target)
    /\ TerminalTie

\* ---------------------------------------------------------------------
\* The constructed Flight
\* ---------------------------------------------------------------------

\* the constructor has returned a valid flight: every stage has run
Finished == pc = "done" /\ valid

\* the fix indices from takeoff to landing
FlightRange == takeoff_fix .. landing_fix

\* the thermals and the glides whose closed interval [enter, exit] holds k
ThermalsHolding(k) ==
    {i \in 1..Len(thermals) : thermals[i].enter_fix <= k /\ k <= thermals[i].exit_fix}
GlidesHolding(k) ==
    {i \in 1..Len(glides) : glides[i].enter_fix <= k /\ k <= glides[i].exit_fix}
SegmentsHolding(k) == Cardinality(ThermalsHolding(k)) + Cardinality(GlidesHolding(k))

\* k is the enter fix or the exit fix of a thermal
ThermalBoundary(k) ==
    \E i \in 1..Len(thermals) : k \in {thermals[i].enter_fix, thermals[i].exit_fix}

\* along the range the segments come glide, thermal, glide, ..., glide
Alternate ==
    /\ Len(glides) = Len(thermals) + 1
    /\ \A i \in 1..Len(thermals) :
          /\ glides[i].exit_fix <= thermals[i].enter_fix
          /\ thermals[i].exit_fix <= glides[i + 1].enter_fix

\* C1 as stated: in a valid flight every fix index from takeoff to landing
\* lies in exactly one thermal or glide interval, and thermals and glides
\* alternate along the range.
C1_ExactlyOneSegment ==
    Finished =>
        /\ \A k \in FlightRange : SegmentsHolding(k) = 1
        /\ Alternate

\* C1 amended: in a valid flight every fix index from takeoff to landing lies
\* in exactly one thermal or glide interval, except the enter fix and the exit
\* fix of each thermal, which lie in exactly two (the thermal and the glide
\* next to it); thermals and glides alternate along the range, glide first
\* and glide last.
C1_SegmentsShareBoundaryFixes ==
    Finished =>
        /\ \A k \in FlightRange :
              SegmentsHolding(k) = IF ThermalBoundary(k) THEN 2 ELSE 1
        /\ Alternate

\* a valid flight with a thermal between two glides of more than one fix
C1_Witness ==
    /\ Finished
    /\ Len(thermals) = 1
    /\ Len(glides) = 2
    /\ \A i \in 1..2 : glides[i].enter_fix < glides[i].exit_fix

\* C2: in a valid flight every thermal and glide has
\* takeoff index <= enter index <= exit index <= landing index, and every
\* thermal has enter index < exit index.
C2_SegmentIndexBounds ==
    Finished =>
        /\ \A i \in 1..Len(thermals) :
              /\ takeoff_fix <= thermals[i].enter_fix
              /\ thermals[i].enter_fix < thermals[i].exit_fix
              /\ thermals[i].exit_fix <= landing_fix
        /\ \A i \in 1..Len(glides) :
              /\ takeoff_fix <= glides[i].enter_fix
              /\ glides[i].enter_fix <= glides[i].exit_fix
              /\ glides[i].exit_fix <= landing_fix

\* a valid flight with a thermal that takes off after the first fix and lands
\* before the last one
C2_Witness ==
    /\ Finished
    /\ Len(thermals) >= 1
    /\ 0 < takeoff_fix
    /\ landing_fix < Len(fixes) - 1

\* the adjacent pairs of fixes whose rawtime decreases
DecreasingPairs ==
    {i \in 1..(Len(fixes) - 1) : fixes[i + 1].rawtime < fixes[i].rawtime}

\* C3 as stated: in a valid flight rawtime never decreases from one fix to
\* the next.
C3_RawtimeNonDecreasing == Finished => DecreasingPairs = {}

\* C3 amended: in a valid flight rawtime decreases from one fix to the next
\* at most max_time_violations times.
C3_RawtimeDecreasesBounded ==
    Finished => Cardinality(DecreasingPairs) <= max_time_violations

\* a valid flight whose rawtime decreases max_time_violations times
C3_Witness ==
    /\ Finished
    /\ Cardinality(DecreasingPairs) = max_time_violations

\* the stages of the constructor in their order
StageOrder ==
    << "min_fixes", "check_altitudes", "check_fix_rawtime", "alt_source",
       "parse_records", "set_flight", "compute_ground_speeds", "compute_flight",
       "compute_takeoff_landing", "compute_bearings",
       "compute_bearing_change_rates", "compute_circling", "find_thermals", "done" >>
StageNumber(stage) == CHOOSE i \in 1..Len(StageOrder) : StageOrder[i] = stage

\* a step goes to the next stage or ends the constructor
InStageOrder ==
    \/ pc' \in {"done", "raised"}
    \/ StageNumber(pc') = StageNumber(pc) + 1

\* a step ends the constructor before its last stage
EndsEarly == pc # "find_thermals" /\ pc' \in {"done", "raised"}

\* a step invalidates the flight with an error note of its own
FailsWithNote ==
    /\ pc' = "done"
    /\ ~valid'
    /\ Len(notes') > Len(notes)
    /\ notes'[Len(notes')][1] = "Error:"

\* C4 as stated: the stages run in their fixed order; a stage that fails sets
\* valid to false and adds a note, and no later stage runs; a flight whose two
\* altitude channels are both rejected is invalidated by the altitude stage,
\* before the rawtime stage runs.
C4_AltitudeStageInvalidates ==
    [][ /\ InStageOrder
        /\ EndsEarly => FailsWithNote
        /\ ~valid' => pc' = "done"
        /\ (pc = "check_altitudes" /\ ~press_alt_valid' /\ ~gnss_alt_valid')
              => FailsWithNote ]_vars

\* C4 amended: the stages run in their fixed order; a stage that fails sets
\* valid to false and adds an error note, or, for the header stage, leaves the
\* constructor by an exception, and no later stage runs; the altitude stage
\* never fails: a flight whose two altitude channels are both rejected goes
\* through the rawtime stage and is invalidated by the altitude-source stage.
C4_AltSourceStageInvalidates ==
    [][ /\ InStageOrder
        /\ EndsEarly => \/ FailsWithNote
                        \/ pc = "parse_records" /\ pc' = "raised" /\ valid'
        /\ ~valid' => pc' = "done"
        /\ pc = "check_altitudes" => valid' /\ pc' = "check_fix_rawtime"
        /\ (pc = "alt_source" /\ ~press_alt_valid /\ ~gnss_alt_valid)
              => FailsWithNote ]_vars

\* both channels are rejected and the rawtime stage has run, and rewritten
\* rawtimes, on the still valid flight
C4_Witness ==
    /\ pc = "alt_source"
    /\ valid
    /\ ~press_alt_valid
    /\ ~gnss_alt_valid
    /\ fixes # log_fixes

\* C5: after construction the flight is invalid exactly when some note starts
\* with "Error:"; every note starts with "Error:" or "Warning:", so a flight
\* with warnings only is valid.
C5_InvalidIffErrorNote ==
    pc = "done" =>
        /\ \A i \in 1..Len(notes) : notes[i][1] \in {"Error:", "Warning:"}
        /\ ~valid <=> \E i \in 1..Len(notes) : notes[i][1] = "Error:"

\* a valid flight that carries a warning
C5_Witness ==
    /\ Finished
    /\ notes # <<>>
    /\ \A i \in 1..Len(notes) : notes[i][1] = "Warning:"

\* C6: the constructor never raises: every failure is a flight with
\* valid = false and a note.
C6_ConstructionNeverRaises ==
    /\ pc # "raised"
    /\ (pc = "done" /\ ~valid) => notes # <<>>

\* C7: on a valid flight Thermal.vertical_velocity, Glide.speed and
\* Glide.glide_ratio never raise, also for a glide of a single fix.
C7_StatisticsNeverRaise ==
    Finished =>
        /\ \A i \in 1..Len(thermals) : vertical_velocity(fixes, thermals[i]).raised = ""
        /\ \A i \in 1..Len(glides) :
              /\ glide_speed(fixes, glides[i]).raised = ""
              /\ glide_ratio(fixes, glides[i]).raised = ""


-----------------------------------------------------------------------------
(* igc_lib.py: Turnpoint and Task.check_flight.  The turnpoints lie on the  *)
(* meridian of the fixes; check_flight reads the rawtime and the position   *)
(* of the fixes of the flight and nothing else of it.                       *)

\* Turnpoint(lat, lon, radius, kind), the radius in millimetres
Turnpoint(lat, radius, kind) == [lat |-> lat, radius |-> radius, kind |-> kind]

TurnpointKinds ==
    {"start_exit", "start_enter", "cylinder", "End_of_speed_section",
     "goal_cylinder", "goal_line"}

\* mutant: a fix on the circle counts as inside
in_radius_or_on(turnpoint, fix) ==
    earth_distance(turnpoint.lat, fix.lat) <= turnpoint.radius

\* Turnpoint.in_radius
in_radius(turnpoint, fix) ==
    earth_distance(turnpoint.lat, fix.lat) < turnpoint.radius

\* the task opens at noon and closes one interval later
TaskStart == DAY \div 2
TaskEnd == TaskStart + Interval

\* a fix of a replayed flight is at the centre of the turnpoints or one stride
\* north of it, and its rawtime is before the start time, the start time, the
\* end time or after the end time; rawtimes may decrease along the flight
TaskFixes ==
    { [rawtime |-> r, lat |-> l] :
        r \in {TaskStart - Interval, TaskStart, TaskEnd, TaskEnd + Interval},
        l \in {GroundLat, GroundLat + Stride} }

\* flight.fixes of the replayed flights
TaskFlights ==
    { [k \in 1..MaxTaskFixes |-> GNSSFix(f[k].rawtime, f[k].lat, GroundAlt, GroundAlt, k - 1)] :
        f \in [1..MaxTaskFixes -> TaskFixes] }

\* the circle of NearRadius passes through the northern position, the circle
\* of FarRadius holds it
NearRadius == earth_distance(GroundLat, GroundLat + Stride)
FarRadius == 2 * NearRadius

\* the turnpoint lists: one turnpoint of any kind, or a start or a cylinder
\* followed by a wide turnpoint of any kind
TurnpointLists ==
    { << Turnpoint(GroundLat, r, k) >> : r \in {NearRadius, FarRadius}, k \in TurnpointKinds }
    \cup
    { << Turnpoint(GroundLat, r, k1), Turnpoint(GroundLat, FarRadius, k2) >> :
        r \in {NearRadius, FarRadius},
        k1 \in {"start_exit", "start_enter", "cylinder"}, k2 \in TurnpointKinds }

\* Task(turnpoints, start_time, end_time) and the first statements of
\* check_flight(flight)
InitTask ==
    /\ turnpoints \in TurnpointLists
    /\ start_time = TaskStart
    /\ end_time = TaskEnd
    /\ fixes \in TaskFlights
    /\ log_fixes = fixes
    /\ h_records = <<>>
    /\ pc = "done"
    /\ valid = TRUE
    /\ notes = <<>>
    /\ NoAttrs
    /\ replayed = 0
    /\ t = 0
    /\ proceed_to_start = FALSE
    /\ reached_turnpoints = <<>>
    /\ task_pc = "replay"
    /\ NoDecoder
    /\ NoFile

\* what check_flight leaves alone
TaskOnly ==
    UNCHANGED << turnpoints, start_time, end_time, decoder_vars, flight_vars, file_vars >>

\* the fix the loop takes next, and the current turnpoint
fix == fixes[replayed + 1]
current == turnpoints[t + 1]

\* the loop has taken every fix: `return reached_turnpoints`
LoopExhausted ==
    /\ task_pc = "replay"
    /\ replayed = Len(fixes)
    /\ task_pc' = "returned"
    /\ UNCHANGED << replayed, t, proceed_to_start, reached_turnpoints >>
    /\ TaskOnly

\* `if t >= len(self.turnpoints): break`
GoalReached ==
    /\ task_pc = "replay"
    /\ replayed < Len(fixes)
    /\ t >= Len(turnpoints)
    /\ task_pc' = "returned"
    /\ UNCHANGED << replayed, t, proceed_to_start, reached_turnpoints >>
    /\ TaskOnly

\* the loop body is entered for the next fix
BodyEntered ==
    /\ task_pc = "replay"
    /\ replayed < Len(fixes)
    /\ t < Len(turnpoints)

\* mutant: a fix after the end time is skipped and the replay goes on
TaskEnded_continue ==
    /\ BodyEntered
    /\ end_time < fix.rawtime
    /\ replayed' = replayed + 1
    /\ UNCHANGED << task_pc, t, proceed_to_start, reached_turnpoints >>
    /\ TaskOnly

\* `if self.end_time < fix.rawtime: break`
TaskEnded ==
    /\ BodyEntered
    /\ end_time < fix.rawtime
    /\ task_pc' = "returned"
    /\ UNCHANGED << replayed, t, proceed_to_start, reached_turnpoints >>
    /\ TaskOnly

\* the loop body goes on to the kind of the current turnpoint
KindTested(kinds) ==
    /\ BodyEntered
    /\ ~(end_time < fix.rawtime)
    /\ current.kind \in kinds
    /\ replayed' = replayed + 1
    /\ TaskOnly

\* `reached_turnpoints.append(fix); t += 1`
Achieve ==
    /\ reached_turnpoints' = Append(reached_turnpoints, fix.index)
    /\ t' = t + 1

\* lines 196-204.  The second `if` reads proceed_to_start as the first one
\* found it, so it runs only when the first one did not.
StartExit ==
    /\ KindTested({"start_exit"})
    /\ task_pc' = "replay"
    /\ IF proceed_to_start
         THEN /\ IF ~in_radius(current, fix) THEN Achieve
                 ELSE UNCHANGED << reached_turnpoints, t >>
              /\ UNCHANGED proceed_to_start
         ELSE /\ proceed_to_start' = (fix.rawtime > start_time /\ in_radius(current, fix))
              /\ UNCHANGED << reached_turnpoints, t >>

\* lines 208-217
StartEnter ==
    /\ KindTested({"start_enter"})
    /\ task_pc' = "replay"
    /\ IF proceed_to_start
         THEN /\ IF in_radius(current, fix) THEN Achieve
                 ELSE UNCHANGED << reached_turnpoints, t >>
              /\ UNCHANGED proceed_to_start
         ELSE /\ proceed_to_start' = (fix.rawtime > start_time /\ ~in_radius(current, fix))
              /\ UNCHANGED << reached_turnpoints, t >>

\* mutant: the fix is appended and t stays
Cylinder_no_advance ==
    /\ KindTested({"cylinder", "End_of_speed_section", "goal_cylinder"})
    /\ task_pc' = "replay"
    /\ IF in_radius(current, fix)
         THEN reached_turnpoints' = Append(reached_turnpoints, fix.index) /\ t' = t
         ELSE UNCHANGED << reached_turnpoints, t >>
    /\ UNCHANGED proceed_to_start

\* lines 219-225
Cylinder ==
    /\ KindTested({"cylinder", "End_of_speed_section", "goal_cylinder"})
    /\ task_pc' = "replay"
    /\ IF in_radius(current, fix) THEN Achieve
       ELSE UNCHANGED << reached_turnpoints, t >>
    /\ UNCHANGED proceed_to_start

\* mutant: a fix is passed over while the current turnpoint is of any other
\* kind, and the replay goes on
UnknownKind_passed_over ==
    /\ KindTested(TurnpointKinds \ {"start_exit", "start_enter", "cylinder",
                                    "End_of_speed_section", "goal_cylinder"})
    /\ task_pc' = "replay"
    /\ UNCHANGED << t, proceed_to_start, reached_turnpoints >>

\* lines 226-228: `assert False` for any other kind, which is goal_line
UnknownKind ==
    /\ KindTested(TurnpointKinds \ {"start_exit", "start_enter", "cylinder",
                                    "End_of_speed_section", "goal_cylinder"})
    /\ task_pc' = "raised"
    /\ UNCHANGED << t, proceed_to_start, reached_turnpoints >>

NextTask ==
    \/ LoopExhausted
    \/ GoalReached
    \/ TaskEnded
    \/ StartExit
    \/ StartEnter
    \/ Cylinder
    \/ UnknownKind

SpecTask == InitTask /\ [][NextTask]_vars

-----------------------------------------------------------------------------
(* igc_lib.py: B records, as sequences of characters *)

Digits == << "0", "1", "2", "3", "4", "5", "6", "7", "8", "9" >>

\* the regular expression classes \d, [-\d] and [0-9a-zA-Z]; the letters of
\* the model are the ones its lines use
IsDigit(c) == \E d \in 1..10 : Digits[d] = c
IsSignOrDigit(c) == c = "-" \/ IsDigit(c)
IsAlnum(c) == IsDigit(c) \/ c \in {"a", "Z", "A", "B", "E", "N", "S", "V", "W", "X"}

DigitValue(c) == (CHOOSE d \in 1..10 : Digits[d] = c) - 1

\* float() of a group of digits, of a group with a leading minus sign
RECURSIVE Number(_)
Number(chars) ==
    IF chars = <<>> THEN 0
    ELSE 10 * Number(SubSeq(chars, 1, Len(chars) - 1)) + DigitValue(chars[Len(chars)])

SignedNumber(chars) ==
    IF chars[1] = "-" THEN -Number(Tail(chars)) ELSE Number(chars)

\* the decimal digits of a natural number
RECURSIVE Decimal(_)
Decimal(n) ==
    IF n < 10 THEN << Digits[n + 1] >>
    ELSE Decimal(n \div 10) \o << Digits[(n % 10) + 1] >>

RECURSIVE ZeroPadded(_, _)
ZeroPadded(chars, width) ==
    IF Len(chars) >= width THEN chars ELSE ZeroPadded(<< "0" >> \o chars, width)

\* "%0<width>d" % n with the sign dropped
FormatD_no_sign(n, width) == ZeroPadded(Decimal(abs(n)), width)

\* "%0<width>d" % n: zero padded to the width, the sign counted in the width,
\* longer than the width when the number needs more digits
FormatD(n, width) ==
    IF n < 0 THEN << "-" >> \o ZeroPadded(Decimal(-n), width - 1)
    ELSE ZeroPadded(Decimal(n), width)

\* the length of the fixed part of the B record grammar
FixedPart == 35

\* re.match of the B record grammar: a B, six digits of time, seven digits
\* and N or S, eight digits and E or W, A or V, two altitudes of a sign or
\* digit and four digits, then anything
B_record_matches(line) ==
    /\ Len(line) >= FixedPart
    /\ line[1] = "B"
    /\ \A i \in 2..14 : IsDigit(line[i])
    /\ line[15] \in {"N", "S"}
    /\ \A i \in 16..23 : IsDigit(line[i])
    /\ line[24] \in {"E", "W"}
    /\ line[25] \in {"A", "V"}
    /\ IsSignOrDigit(line[26])
    /\ \A i \in 27..30 : IsDigit(line[i])
    /\ IsSignOrDigit(line[31])
    /\ \A i \in 32..35 : IsDigit(line[i])

\* the group ([0-9a-zA-Z]*): the longest run of letters and digits
RECURSIVE AlnumPrefix(_)
AlnumPrefix(chars) ==
    IF chars = <<>> \/ ~IsAlnum(chars[1]) THEN <<>>
    ELSE << chars[1] >> \o AlnumPrefix(Tail(chars))

\* a GNSSFix with all its raw attributes; lat and lon in thousandths of an
\* arc-minute
BFix(rawtime, lat, lon, validity, press_alt, gnss_alt, index, extras) ==
    [lon |-> lon, validity |-> validity, extras |-> extras]
        @@ GNSSFix(rawtime, lat, press_alt, gnss_alt, index)

\* GNSSFix.build_from_B_record: matched is FALSE where the code returns None
build_from_B_record(line, index) ==
    IF ~B_record_matches(line)
      THEN [matched |-> FALSE, fix |-> BFix(0, 0, 0, "", 0, 0, index, <<>>)]
      ELSE LET hours == Number(SubSeq(line, 2, 3))
               minutes == Number(SubSeq(line, 4, 5))
               seconds == Number(SubSeq(line, 6, 7))
               lat == Number(SubSeq(line, 8, 9)) * 60000
                          + Number(SubSeq(line, 10, 11)) * 1000
                          + Number(SubSeq(line, 12, 14))
               lon == Number(SubSeq(line, 16, 18)) * 60000
                          + Number(SubSeq(line, 19, 20)) * 1000
                          + Number(SubSeq(line, 21, 23))
           IN [matched |-> TRUE,
               fix |-> BFix((hours * 60 + minutes) * 60 + seconds,
                            IF line[15] = "S" THEN -lat ELSE lat,
                            IF line[24] = "W" THEN -lon ELSE lon,
                            line[25],
                            SignedNumber(SubSeq(line, 26, 30)),
                            SignedNumber(SubSeq(line, 31, 35)),
                            index,
                            AlnumPrefix(SubSeq(line, 36, Len(line))))]

\* GNSSFix.to_B_record
to_B_record(f) ==
    LET lat == abs(f.lat)
        lon == abs(f.lon)
    IN << "B" >>
       \o FormatD(f.rawtime \div 3600, 2)
       \o FormatD((f.rawtime % 3600) \div 60, 2)
       \o FormatD(f.rawtime % 60, 2)
       \o FormatD(lat \div 60000, 2)
       \o FormatD((lat % 60000) \div 1000, 2)
       \o FormatD(lat % 1000, 3)
       \o << IF f.lat < 0 THEN "S" ELSE "N" >>
       \o FormatD(lon \div 60000, 3)
       \o FormatD((lon % 60000) \div 1000, 2)
       \o FormatD(lon % 1000, 3)
       \o << IF f.lon < 0 THEN "W" ELSE "E" >>
       \o << f.validity >>
       \o FormatD(f.press_alt, 5)
       \o FormatD(f.gnss_alt, 5)
       \o f.extras

\* the B record lines of the model: times up to 99:99:99, minute fields of
\* 60, degrees that reach 100 and 1000 with their minutes, both hemispheres,
\* negative altitudes, extensions and text after them; a field is a natural
\* number written with leading zeros
Field(n, width) == ZeroPadded(Decimal(n), width)

TimeFields ==
    { Field(tm[1], 2) \o Field(tm[2], 2) \o Field(tm[3], 2) :
        tm \in { << 0, 0, 0 >>, << 23, 59, 59 >>, << 12, 0, 60 >>,
                 << 99, 0, 0 >>, << 99, 99, 99 >> } }

LatFields ==
    { Field(l[1], 2) \o Field(l[2], 2) \o Field(l[3], 3) \o << h >> :
        l \in { << 0, 0, 0 >>, << 45, 12, 345 >>, << 89, 59, 999 >>,
                << 45, 60, 0 >>, << 99, 60, 0 >> },
        h \in { "N", "S" } }

LonFields ==
    { Field(l[1], 3) \o Field(l[2], 2) \o Field(l[3], 3) \o << h >> :
        l \in { << 6, 12, 345 >>, << 179, 59, 999 >>, << 999, 60, 0 >> },
        h \in { "E", "W" } }

PressAltFields ==
    { Field(500, 5), << "-", "0", "1", "2", "3" >>, Field(99999, 5), << "-", "0", "0", "0", "0" >> }

GnssAltFields == { Field(1234, 5), << "-", "9", "9", "9", "9" >> }

Tails == { <<>>, << "1", "a" >>, << "Z", " ", "a" >> }

WellFormedBRecords ==
    { << "B" >> \o tm \o la \o lo \o << v >> \o pa \o ga \o tl :
        tm \in TimeFields, la \in LatFields, lo \in LonFields, v \in { "A", "V" },
        pa \in PressAltFields, ga \in GnssAltFields, tl \in Tails }

\* lines that start with B and fail the grammar
MalformedBRecords ==
    { << "B", "1", "2" >>,
      << "B" >> \o Field(120000, 6) \o Field(4512345, 7) \o << "X" >>
          \o Field(612345, 8) \o << "E", "A" >> \o Field(500, 5) \o Field(500, 5),
      << "B" >> \o Field(120000, 6) \o Field(4512345, 7) \o << "N" >>
          \o Field(612345, 8) \o << "E", "A" >> \o Field(500, 5) \o << "5", "0" >> }

\* the days _check_fix_rawtime may have added to the rawtime of a fix
MaxDaysAdded == 3

InitBRecord ==
    /\ NoDecoder
    /\ NoTask
    /\ \E line \in WellFormedBRecords \cup MalformedBRecords : lines = << line >>
    /\ read = 0
    /\ a_records = <<>>
    /\ i_records = <<>>
    /\ record_out = <<>>
    /\ reparsed = <<>>
    /\ log_fixes = <<>>
    /\ h_records = <<>>
    /\ fixes = <<>>
    /\ valid = TRUE
    /\ notes = <<>>
    /\ NoAttrs
    /\ pc = "build"

BRecordOnly ==
    UNCHANGED << lines, read, a_records, i_records, log_fixes, h_records, valid, notes,
                 attrs, press_alt_valid, gnss_alt_valid, alt_source, date_timestamp,
                 takeoff_fix, landing_fix, thermals, glides, raised,
                 decoder_vars, task_vars >>

\* fix = GNSSFix.build_from_B_record(line, index): a fix, or None
BuildFromBRecord ==
    /\ pc = "build"
    /\ LET r == build_from_B_record(lines[1], 0)
       IN IF r.matched
            THEN fixes' = << r.fix >> /\ pc' = "built"
            ELSE fixes' = fixes /\ pc' = "none"
    /\ UNCHANGED << record_out, reparsed >>
    /\ BRecordOnly

\* _check_fix_rawtime: f1.rawtime += rawtime_to_add, whole days
DayRollover ==
    /\ pc = "built"
    /\ \E days \in 1..MaxDaysAdded :
          fixes' = [fixes EXCEPT ![1].rawtime = @ + days * DAY]
    /\ pc' = "shifted"
    /\ UNCHANGED << record_out, reparsed >>
    /\ BRecordOnly

\* fix.to_B_record()
ToBRecord ==
    /\ pc \in {"built", "shifted"}
    /\ record_out' = to_B_record(fixes[1])
    /\ pc' = "serialised"
    /\ UNCHANGED << fixes, reparsed >>
    /\ BRecordOnly

\* GNSSFix.build_from_B_record(fix.to_B_record(), index)
Reparse ==
    /\ pc = "serialised"
    /\ LET r == build_from_B_record(record_out, 0)
       IN reparsed' = IF r.matched THEN << r.fix >> ELSE <<>>
    /\ pc' = "reparsed"
    /\ UNCHANGED << fixes, record_out >>
    /\ BRecordOnly

NextBRecord ==
    \/ BuildFromBRecord
    \/ DayRollover
    \/ ToBRecord
    \/ Reparse

SpecBRecord == InitBRecord /\ [][NextBRecord]_vars

-----------------------------------------------------------------------------
(* igc_lib.py: Flight.create_from_file *)

\* the number of lines of a file
MaxLines == 4

\* line.replace('\n', '').replace('\r', '')
Strip(line) == SelectSeq(line, LAMBDA c : c \notin {"\n", "\r"})

\* a B record of the file: seconds after 12:00:00 and an altitude
FileBRecord(seconds, alt) ==
    << "B" >> \o Field(12, 2) \o Field(0, 2) \o Field(seconds, 2)
        \o Field(4512345, 7) \o << "N" >> \o Field(612345, 8) \o << "E", "A" >>
        \o Field(alt, 5) \o Field(alt, 5)

\* the lines of the files: B records, one of them with the time of another,
\* one that fails the grammar, A, H, I and other records, an empty line
FileLines ==
    { FileBRecord(0, 500) \o << "\n" >>,
      FileBRecord(0, 510) \o << "\r", "\n" >>,
      FileBRecord(Interval, 520) \o << "\n" >>,
      << "B" >> \o Field(120030, 6) \o << "\n" >>,
      << "A", "X", "\n" >>,
      << "H", "F", "\n" >>,
      << "I", "0", "\r", "\n" >>,
      << "L", "X", "\n" >>,
      << "\n" >> }

InitFile ==
    /\ NoDecoder
    /\ NoTask
    /\ lines \in [1..MaxLines -> FileLines]
    /\ read = 0
    /\ a_records = <<>>
    /\ i_records = <<>>
    /\ record_out = <<>>
    /\ reparsed = <<>>
    /\ log_fixes = <<>>
    /\ h_records = <<>>
    /\ fixes = <<>>
    /\ valid = TRUE
    /\ notes = <<>>
    /\ NoAttrs
    /\ pc = "read"

FileOnly ==
    UNCHANGED << lines, record_out, reparsed, log_fixes, valid, notes,
                 attrs, press_alt_valid, gnss_alt_valid, alt_source, date_timestamp,
                 takeoff_fix, landing_fix, thermals, glides, raised,
                 decoder_vars, task_vars >>

\* the line of this iteration of `for line in flight_file`, stripped
line == Strip(lines[read + 1])

\* the loop takes the next line, whose first character is one of tags
LineRead(tags) ==
    /\ pc = "read"
    /\ read < Len(lines)
    /\ line # <<>>
    /\ line[1] \in tags
    /\ read' = read + 1
    /\ pc' = pc
    /\ FileOnly

\* `if not line: continue`
EmptyLine ==
    /\ pc = "read"
    /\ read < Len(lines)
    /\ line = <<>>
    /\ read' = read + 1
    /\ pc' = pc
    /\ UNCHANGED << fixes, a_records, h_records, i_records >>
    /\ FileOnly

ARecord ==
    /\ LineRead({"A"})
    /\ a_records' = Append(a_records, line)
    /\ UNCHANGED << fixes, h_records, i_records >>

\* the fix is dropped when the line fails the grammar or the time did not
\* change since the last kept fix; the index is the line number
BRecord_line_index ==
    /\ LineRead({"B"})
    /\ LET r == build_from_B_record(line, read)
       IN fixes' = IF r.matched /\ ~(fixes # <<>> /\ abs(r.fix.rawtime - fixes[Len(fixes)].rawtime) < 1)
                     THEN Append(fixes, r.fix)
                     ELSE fixes
    /\ UNCHANGED << a_records, h_records, i_records >>

\* the fix is dropped when the line fails the grammar or the time did not
\* change since the last kept fix; the index is len(fixes)
BRecord ==
    /\ LineRead({"B"})
    /\ LET r == build_from_B_record(line, Len(fixes))
       IN fixes' = IF r.matched /\ ~(fixes # <<>> /\ abs(r.fix.rawtime - fixes[Len(fixes)].rawtime) < 1)
                     THEN Append(fixes, r.fix)
                     ELSE fixes
    /\ UNCHANGED << a_records, h_records, i_records >>

IRecord ==
    /\ LineRead({"I"})
    /\ i_records' = Append(i_records, line)
    /\ UNCHANGED << fixes, a_records, h_records >>

HRecord ==
    /\ LineRead({"H"})
    /\ h_records' = Append(h_records, line)
    /\ UNCHANGED << fixes, a_records, i_records >>

\* any other type of record is not parsed
OtherRecord ==
    /\ LineRead({"L"})
    /\ UNCHANGED << fixes, a_records, h_records, i_records >>

\* flight = Flight(fixes, a_records, h_records, i_records, config), up to the
\* test of the number of fixes
Construct ==
    /\ pc = "read"
    /\ read = Len(lines)
    /\ log_fixes' = fixes
    /\ valid' = TRUE
    /\ notes' = <<>>
    /\ pc' = "min_fixes"
    /\ UNCHANGED << lines, read, a_records, i_records, record_out, reparsed, h_records,
                    fixes, attrs, press_alt_valid, gnss_alt_valid, alt_source,
                    date_timestamp, takeoff_fix, landing_fix, thermals, glides, raised,
                    decoder_vars, task_vars >>

NextFile ==
    \/ EmptyLine
    \/ ARecord
    \/ BRecord
    \/ IRecord
    \/ HRecord
    \/ OtherRecord
    \/ Construct
    \/ CheckMinFixes

SpecFile == InitFile /\ [][NextFile]_vars

\* ---------------------------------------------------------------------
\* The reference decodings
\* ---------------------------------------------------------------------

\* C11: with the canonical test parameters, constant lists of 0s (of 1s) of
\* the lengths 0..19 decoded one after another on one instance each decode to
\* themselves; [0]*6 + [1]*7 decodes to itself; [1,0,0,0,1,1,0,0,0] decodes
\* to all zeros and [1,0,1,1,0,0,1,1,1] to all ones.
C11_ReferenceDecodings ==
    calls > 0 =>
        CASE test \in {"testEmptyDecode", "testSimpleDecodeZeros",
                       "testSimpleDecodeOnes", "testMixedIdentityDecode"}
                -> states = emissions
          [] test = "testIgnoresSmallFluctuationsZeros"
                -> emissions = FluctuationsZerosData /\ states = Repeat(0, 9)
          [] test = "testIgnoresSmallFluctuationsOnes"
                -> emissions = FluctuationsOnesData /\ states = Repeat(1, 9)
          [] OTHER -> TRUE

\* the last call of a full loop over constant lists decoded the longest list
C11_Witness ==
    /\ test = "testSimpleDecodeOnes"
    /\ calls = ReferenceRange
    /\ states = Repeat(1, ReferenceRange - 1)

\* ---------------------------------------------------------------------
\* Takeoff and landing
\* ---------------------------------------------------------------------

\* the fixes carry their flying flag
FlyingComputed == fixes # <<>> /\ \A i \in 1..Len(fixes) : "flying" \in fixes[i].attrs

\* the indices of the fixes classified flying
FlyingIndices == {fixes[i].index : i \in {j \in 1..Len(fixes) : fixes[j].flying}}

\* the largest element of a non-empty set of numbers
Max(S) == CHOOSE x \in S : \A y \in S : y <= x
Min(S) == CHOOSE x \in S : \A y \in S : x <= y

\* C12: the landing fix is the first fix not flying after the last stretch
\* of flying fixes, or the last fix of the log when the last fix is flying,
\* also when an earlier landing occurred in the middle of the log.
C12_LandingAfterLastFlyingStretch ==
    "landing_fix" \in attrs =>
        landing_fix = IF fixes[Len(fixes)].flying
                      THEN fixes[Len(fixes)].index
                      ELSE Max(FlyingIndices) + 1

\* C13: the takeoff fix is the flying fix of lowest index; when no fix is
\* flying the flight ends invalid with the note "Error: did not detect
\* takeoff." and has neither thermals nor glides.
C13_TakeoffIsFirstFlyingFix ==
    /\ "takeoff_fix" \in attrs => takeoff_fix = Min(FlyingIndices)
    /\ (FlyingComputed /\ FlyingIndices = {}
            /\ pc \notin {"compute_flight", "compute_takeoff_landing"}) =>
          /\ pc = "done"
          /\ ~valid
          /\ notes[Len(notes)] = Note("Error:", "did not detect takeoff.")
          /\ {"takeoff_fix", "landing_fix", "thermals", "glides"} \cap attrs = {}

\* a log whose every fix has been classified not flying
C13_Witness ==
    /\ pc = "done"
    /\ FlyingComputed
    /\ FlyingIndices = {}
    /\ Len(fixes) >= min_fixes

\* ---------------------------------------------------------------------
\* Task.check_flight
\* ---------------------------------------------------------------------

\* the distance from the fix to the centre is strictly less than the radius
Inside(turnpoint, f) == earth_distance(turnpoint.lat, f.lat) < turnpoint.radius

\* the loop body runs for the next fix with a turnpoint of one of the kinds
BodyStep(kinds) ==
    /\ task_pc = "replay"
    /\ replayed' = replayed + 1
    /\ t < Len(turnpoints)
    /\ current.kind \in kinds

\* the fix of the step is recorded as the achievement of the current turnpoint
Achieved == t' = t + 1 /\ reached_turnpoints' = Append(reached_turnpoints, fix.index)

\* C14: for a start_exit turnpoint the achievement is recorded at the first
\* fix outside the cylinder that comes after an earlier fix inside the
\* cylinder with rawtime >= start_time; an inside fix whose rawtime equals
\* start_time positions the pilot to start.
C14_StartExitAtOrAfterStartTime ==
    [][ (BodyStep({"start_exit"}) /\ t = 0) =>
            (Achieved <=>
                /\ ~Inside(current, fix)
                /\ \E j \in 1..replayed :
                      /\ Inside(current, fixes[j])
                      /\ fixes[j].rawtime >= start_time) ]_vars

\* C15: for a start_enter turnpoint the achievement is recorded only at a fix
\* inside the cylinder that an earlier fix outside the cylinder with rawtime
\* after start_time precedes in the replay; the two are different fixes.
C15_StartEnterAfterOutsideFix ==
    [][ (BodyStep({"start_enter"}) /\ t' # t) =>
            /\ Achieved
            /\ Inside(current, fix)
            /\ \E j \in 1..replayed :
                  /\ ~Inside(current, fixes[j])
                  /\ fixes[j].rawtime > start_time ]_vars

\* the rawtimes of the returned fixes
ReachedRawtimes ==
    [k \in 1..Len(reached_turnpoints) |-> FixAt(fixes, reached_turnpoints[k]).rawtime]

NonDecreasing(seq) == \A k \in 1..(Len(seq) - 1) : seq[k] <= seq[k + 1]
Increasing(seq) == \A k \in 1..(Len(seq) - 1) : seq[k] < seq[k + 1]

\* the rawtime check of Flight accepts the fixes and leaves them as they are
RawtimeCheckAccepts ==
    LET r == check_fix_rawtime(fixes)
    IN /\ r.fixes = fixes
       /\ r.rawtime_between_fix_exceeded <= max_time_violations
       /\ r.days_added <= max_new_days_in_flight

\* C16 as stated: the returned fixes are in non-decreasing rawtime order and
\* are not more than the turnpoints of the task, for every flight that the
\* rawtime check accepts.
C16_ReachedRawtimesNonDecreasing ==
    RawtimeCheckAccepts =>
        /\ NonDecreasing(ReachedRawtimes)
        /\ Len(reached_turnpoints) <= Len(turnpoints)

\* C16 amended: the returned fixes are in increasing order of their index in
\* the flight, so in non-decreasing rawtime order when the rawtimes of the
\* flight do not decrease, and are not more than the turnpoints of the task.
C16_ReachedInReplayOrder ==
    /\ Increasing(reached_turnpoints)
    /\ NonDecreasing([k \in 1..Len(fixes) |-> fixes[k].rawtime])
          => NonDecreasing(ReachedRawtimes)
    /\ Len(reached_turnpoints) = t
    /\ t <= Len(turnpoints)

\* two turnpoints are achieved by fixes whose rawtimes increase
C16_Witness ==
    /\ task_pc = "returned"
    /\ Len(reached_turnpoints) = 2
    /\ Increasing(ReachedRawtimes)

CylinderKinds == {"cylinder", "End_of_speed_section", "goal_cylinder"}

\* the position in flight.fixes after the fix that achieved turnpoint k - 1:
\* where the replay for turnpoint k (1-based) begins
ReplayFrom(k) == IF k = 1 THEN 1 ELSE reached_turnpoints[k - 1] + 2

\* C17: a turnpoint of kind cylinder, End_of_speed_section or goal_cylinder is
\* achieved by the first fix, among those replayed while it is the current
\* turnpoint, whose distance to the centre is strictly less than the radius;
\* t advances by one and the fix is not tested against the next turnpoint, so
\* no fix achieves two turnpoints.
C17_CylinderFirstFixInside ==
    /\ \A k \in 1..Len(reached_turnpoints) :
          turnpoints[k].kind \in CylinderKinds =>
              /\ Inside(turnpoints[k], FixAt(fixes, reached_turnpoints[k]))
              /\ \A j \in ReplayFrom(k)..reached_turnpoints[k] :
                    ~Inside(turnpoints[k], fixes[j])
    /\ (t < Len(turnpoints) /\ current.kind \in CylinderKinds) =>
          \A j \in ReplayFrom(t + 1)..replayed : ~Inside(current, fixes[j])
    /\ Increasing(reached_turnpoints)
    /\ Len(reached_turnpoints) = t

\* a fix inside two cylinders achieves the first one, after a fix on the
\* circle did not, and the next fix achieves the second one
C17_Witness ==
    /\ Len(reached_turnpoints) = 2
    /\ turnpoints[1].kind = "cylinder"
    /\ turnpoints[2].kind \in CylinderKinds
    /\ reached_turnpoints = << 1, 2 >>
    /\ fixes[1].lat # turnpoints[1].lat
    /\ Inside(turnpoints[2], fixes[2])

\* the positions of the fixes whose rawtime exceeds the end time
LateFixes == {j \in 1..Len(fixes) : end_time < fixes[j].rawtime}

\* C18: the replay stops at the first fix whose rawtime exceeds end_time, or
\* when all turnpoints are achieved: no returned fix has rawtime greater than
\* end_time, and no fix at or after the stopping point is returned, also when
\* its rawtime is smaller.
C18_ReplayStopsAtEndTime ==
    /\ \A k \in 1..Len(reached_turnpoints) :
          /\ ReachedRawtimes[k] <= end_time
          /\ \A j \in LateFixes : reached_turnpoints[k] + 1 < j
    /\ \A j \in LateFixes : replayed < j
    /\ t = Len(turnpoints) => replayed = IF t = 0 THEN 0 ELSE reached_turnpoints[t] + 1
    /\ (task_pc = "returned" /\ replayed < Len(fixes)) =>
          \/ t = Len(turnpoints)
          \/ end_time < fix.rawtime

\* the replay stopped at a late fix, and a later fix with a rawtime before the
\* end time lies inside the turnpoint that was current
C18_Witness ==
    /\ task_pc = "returned"
    /\ t = 0
    /\ current.kind = "cylinder"
    /\ replayed + 1 \in LateFixes
    /\ \E j \in (replayed + 2)..Len(fixes) :
          fixes[j].rawtime <= end_time /\ Inside(current, fixes[j])

\* ---------------------------------------------------------------------
\* B records
\* ---------------------------------------------------------------------

\* the raw attributes of a fix
RawFields(f) ==
    << f.rawtime, f.lat, f.lon, f.validity, f.press_alt, f.gnss_alt, f.extras >>

\* parsing the output of to_B_record gave a fix with the same raw attributes
RoundTrip == Len(reparsed) = 1 /\ RawFields(reparsed[1]) = RawFields(fixes[1])

\* C19 as stated: for every fix produced by build_from_B_record, also after a
\* day-rollover correction, parsing the output of to_B_record yields a fix
\* with identical rawtime, lat, lon, validity, press_alt, gnss_alt and extras.
C19_RoundTripOfEveryFix == pc = "reparsed" => RoundTrip

\* the minute fields of the latitude and of the longitude are below 60
MinuteFieldsBelow60(record) ==
    /\ Number(SubSeq(record, 10, 11)) < 60
    /\ Number(SubSeq(record, 19, 20)) < 60

\* C19 amended: for every fix produced by build_from_B_record from a record
\* whose latitude and longitude minute fields are below 60 and whose rawtime,
\* also after a day-rollover correction, is below 100 hours, parsing the
\* output of to_B_record yields a fix with identical raw fields; the digits
\* of the latitude and of the longitude are written back as they were read.
C19_RoundTripOfFixInRange ==
    (/\ pc = "reparsed"
     /\ MinuteFieldsBelow60(lines[1])
     /\ fixes[1].rawtime < 100 * 3600) =>
        /\ RoundTrip
        /\ SubSeq(record_out, 8, 14) = SubSeq(lines[1], 8, 14)
        /\ SubSeq(record_out, 16, 23) = SubSeq(lines[1], 16, 23)

\* a fix of the southern and western hemispheres with negative altitudes,
\* extensions and a rawtime past 24 h came back from the round trip
C19_Witness ==
    /\ pc = "reparsed"
    /\ MinuteFieldsBelow60(lines[1])
    /\ fixes[1].rawtime >= DAY
    /\ fixes[1].rawtime < 100 * 3600
    /\ fixes[1].lat < 0
    /\ fixes[1].lon < 0
    /\ fixes[1].press_alt < 0
    /\ fixes[1].gnss_alt < 0
    /\ fixes[1].extras # <<>>
    /\ RoundTrip

\* ---------------------------------------------------------------------
\* Reading a file
\* ---------------------------------------------------------------------

\* the B record read in this step fails the grammar
FailsGrammar == ~B_record_matches(line)

\* the B record read in this step has the rawtime of the last kept fix
RepeatsRawtime ==
    /\ B_record_matches(line)
    /\ fixes # <<>>
    /\ build_from_B_record(line, 0).fix.rawtime = fixes[Len(fixes)].rawtime

\* the kept fixes carry their positions as indices
ContiguousIndices == \A i \in 1..Len(fixes) : fixes[i].index = i - 1

\* C20: when a file is read, a B record that fails the grammar or whose
\* rawtime equals the rawtime of the previously kept fix is dropped, any
\* other B record is kept, and the kept fixes carry contiguous zero-based
\* indices, fixes[i].index = i, whatever lines were dropped before.
C20_DroppedRecordsAndContiguousIndices ==
    /\ [] ContiguousIndices
    /\ [][ (pc = "read" /\ read' = read + 1 /\ line # <<>> /\ line[1] = "B") =>
              IF FailsGrammar \/ RepeatsRawtime
                THEN fixes' = fixes
                ELSE /\ Len(fixes') = Len(fixes) + 1
                     /\ SubSeq(fixes', 1, Len(fixes)) = fixes ]_vars

\* a flight was built from a file where a fix was kept after a B record that
\* fails the grammar and a B record that repeats a rawtime were dropped
C20_Witness ==
    /\ pc = "done"
    /\ Len(fixes) = 2
    /\ fixes[2].index = 1
    /\ fixes[2].rawtime # fixes[1].rawtime
    /\ \E i, j \in 2..(MaxLines - 1) :
          /\ i # j
          /\ Strip(lines[i]) # <<>>
          /\ Strip(lines[i])[1] = "B"
          /\ ~B_record_matches(Strip(lines[i]))
          /\ B_record_matches(Strip(lines[j]))
          /\ build_from_B_record(Strip(lines[j]), 0).fix.rawtime = fixes[1].rawtime
    /\ B_record_matches(Strip(lines[1]))
    /\ B_record_matches(Strip(lines[MaxLines]))

\* ---------------------------------------------------------------------
\* Derived fields of the fixes
\* ---------------------------------------------------------------------

\* the derived attributes every fix of the flight carries, when all fixes
\* carry the same ones
AllFixesCarry(derived) == \A i \in 1..Len(fixes) : fixes[i].attrs = derived

\* the constructor returned at the test for the takeoff fix
RejectedForTakeoff ==
    /\ pc = "done"
    /\ ~valid
    /\ notes # <<>>
    /\ notes[Len(notes)] = Note("Error:", "did not detect takeoff.")

\* C21 as stated: after construction of an invalid flight (also one rejected
\* for missing takeoff) no fix carries any derived field, and after
\* construction of a valid flight every fix carries all of them.
C21_DerivedFieldsIffValid ==
    pc = "done" =>
        IF valid THEN AllFixesCarry(DerivedAttrs) ELSE AllFixesCarry({})

\* C21 amended: after construction of a valid flight every fix carries all
\* the derived fields; after construction of a flight rejected for missing
\* takeoff every fix carries timestamp, alt, gsp and flying and none of
\* bearing, bearing_change_rate, circling; after construction of a flight
\* rejected at an earlier stage no fix carries any derived field.
C21_DerivedFieldsByStage ==
    pc = "done" =>
        IF valid THEN AllFixesCarry(DerivedAttrs)
        ELSE IF RejectedForTakeoff
               THEN AllFixesCarry({"timestamp", "alt", "gsp", "flying"})
               ELSE AllFixesCarry({})

\* a flight rejected for missing takeoff whose fixes carry derived fields
C21_Witness ==
    /\ RejectedForTakeoff
    /\ Len(fixes) >= min_fixes
    /\ AllFixesCarry({"timestamp", "alt", "gsp", "flying"})

\* ---------------------------------------------------------------------
\* The track length of the glides
\* ---------------------------------------------------------------------

\* the sum of the distances between consecutive fixes along the recorded
\* path from the fix of index a to the fix of index b
PathLength(a, b) ==
    SumOver([k \in 1..(Len(fixes) - 1) |-> distance_to(fixes[k + 1], fixes[k])],
            {k \in 1..(Len(fixes) - 1) : a + 1 <= k /\ k <= b})

\* C22: for every committed glide, track_length is the sum of the distances
\* between consecutive fixes along the recorded path from the enter fix to
\* the exit fix, the leg that ends at the exit fix included.
C22_TrackLengthIsPathLength ==
    Finished =>
        \A i \in 1..Len(glides) :
            glides[i].track_length = PathLength(glides[i].enter_fix, glides[i].exit_fix)

\* ---------------------------------------------------------------------
\* The altitude channels
\* ---------------------------------------------------------------------

\* the fixes as _check_altitudes saw them, before the rawtime correction:
\* the positions, from a to b, of the fixes whose altitude of the channel is
\* above max_alt or below min_alt
OutOfLimits(ch, a, b) ==
    {i \in a..b : log_fixes[i][ch] > max_alt \/ log_fixes[i][ch] < min_alt}

\* the channel is rejected for its changes: the average too low, or too many
\* huge changes
RejectedForChanges(ch) ==
    \/ avg_change_too_low(log_fixes, ch)
    \/ huge_changes_num(log_fixes, ch) > max_alt_change_violations

\* C23: an altitude channel is rejected exactly when its average absolute
\* change per fix is below the minimum, or its huge changes are more than
\* max_alt_change_violations, or any fix of the log, the first to the last
\* inclusive, has the altitude of the channel above max_alt or below min_alt.
C23_ChannelRejectedExactlyWhen ==
    {"press_alt_valid", "gnss_alt_valid"} \subseteq attrs =>
        /\ press_alt_valid =
              ~(RejectedForChanges("press_alt") \/ OutOfLimits("press_alt", 1, Len(fixes)) # {})
        /\ gnss_alt_valid =
              ~(RejectedForChanges("gnss_alt") \/ OutOfLimits("gnss_alt", 1, Len(fixes)) # {})

\* ---------------------------------------------------------------------
\* The day rollovers
\* ---------------------------------------------------------------------

\* the rawtime stage has run
RawtimeStageDone == "press_alt_valid" \in attrs /\ pc # "check_fix_rawtime"

\* the numbers of rollovers detected at the positions up to each fix of the
\* log: a rollover is detected at a fix whose rawtime, after the days added
\* so far, is lower than the corrected rawtime of the fix before it and
\* stays more than 200 s short of it when 24 h are taken off the difference
RECURSIVE RolloverCounts(_, _)
RolloverCounts(i, counts) ==
    IF i > Len(log_fixes) THEN counts
    ELSE LET before == counts[i - 1]
             shifted == log_fixes[i].rawtime + DAY * before
             predecessor == log_fixes[i - 1].rawtime + DAY * before
         IN RolloverCounts(i + 1,
                Append(counts, IF shifted < predecessor /\ shifted + DAY < predecessor + 200
                               THEN before + 1 ELSE before))

Rollovers(i) == RolloverCounts(2, << 0 >>)[i]

\* C24: the corrected rawtime of every fix is its raw value plus 24 h times
\* the number of rollovers detected at the positions up to it, and more than
\* max_new_days_in_flight rollovers invalidate the flight.
C24_RolloverAddsDaysToLaterFixes ==
    RawtimeStageDone =>
        /\ LET counts == RolloverCounts(2, << 0 >>)
           IN \A i \in 1..Len(fixes) :
                  fixes[i].rawtime = log_fixes[i].rawtime + DAY * counts[i]
        /\ fixes[Len(fixes)].rawtime - log_fixes[Len(fixes)].rawtime
              > DAY * max_new_days_in_flight =>
              /\ ~valid
              /\ pc = "done"
              /\ \E k \in 1..Len(notes) :
                    notes[k] = Note("Error:", "too many times did the flight cross the UTC 0:00 barrier")

\* a valid flight that crossed midnight max_new_days_in_flight times
C24_Witness ==
    /\ Finished
    /\ Rollovers(Len(fixes)) = max_new_days_in_flight
    /\ fixes[Len(fixes)].rawtime >= max_new_days_in_flight * DAY


\* the positions before i whose timestamp is at least
\* min_time_for_bearing_change before the timestamp of the fix at i
EarlierQualifying(i) ==
    {j \in 1..(i - 1) :
        fixes[i].timestamp - fixes[j].timestamp >= min_time_for_bearing_change}

\* the bearing change per second from the fix at prev to the fix at curr,
\* the change taken the short way round, in thousandths of a degree per second
RateBetween(prev, curr) ==
    LET change == fixes[prev].bearing - fixes[curr].bearing
        short_way == IF change > 180 THEN change - 360
                     ELSE IF change < -180 THEN change + 360 ELSE change
    IN quotient(short_way * 1000, fixes[prev].timestamp - fixes[curr].timestamp)

\* C25: in a valid flight the bearing_change_rate of every fix is the rate
\* against the nearest earlier fix, the first fix of the log included, whose
\* timestamp is at least min_time_for_bearing_change before it, and it is 0
\* when no earlier fix qualifies.
C25_RateAgainstNearestEarlierFix ==
    Finished =>
        \A i \in 1..Len(fixes) :
            fixes[i].bearing_change_rate =
                IF EarlierQualifying(i) = {} THEN 0
                ELSE RateBetween(CHOOSE j \in EarlierQualifying(i) :
                                     \A k \in EarlierQualifying(i) : k <= j, i)


\* the circling runs of the walked range that a not-circling fix ends: the
\* index of the first circling fix of the run and the index of the first
\* not-circling fix after it
CirclingRuns ==
    {r \in FlightRange \X FlightRange :
        /\ r[1] < r[2]
        /\ r[1] = takeoff_fix \/ ~FixAt(fixes, r[1] - 1).circling
        /\ \A k \in r[1]..(r[2] - 1) : FixAt(fixes, k).circling
        /\ ~FixAt(fixes, r[2]).circling}

RunLasts(r) == FixAt(fixes, r[2]).rawtime - FixAt(fixes, r[1]).rawtime

LongRuns == {r \in CirclingRuns : RunLasts(r) >= min_time_for_thermal}
ShortRuns == CirclingRuns \ LongRuns

\* C26: the thermals of a valid flight are the circling runs ended by a
\* not-circling fix that last at least min_time_for_thermal, each with a glide
\* that exits at its enter fix; a shorter run commits no thermal and no glide,
\* and lies inside one glide whose track_length covers the run's fixes.
C26_ThermalsAreLongCirclingRuns ==
    Finished =>
        /\ Len(thermals) = Cardinality(LongRuns)
        /\ {<< thermals[i].enter_fix, thermals[i].exit_fix >> : i \in 1..Len(thermals)}
              = LongRuns
        /\ \A i \in 1..Len(thermals) :
              /\ i <= Len(glides)
              /\ glides[i].exit_fix = thermals[i].enter_fix
        /\ \A r \in ShortRuns :
              /\ \A i \in 1..Len(thermals) : thermals[i].enter_fix # r[1]
              /\ \A i \in 1..Len(glides) : glides[i].exit_fix # r[1]
              /\ \E i \in 1..Len(glides) :
                    /\ glides[i].enter_fix <= r[1]
                    /\ r[2] <= glides[i].exit_fix
                    /\ glides[i].track_length >= PathLength(glides[i].enter_fix, r[2])

\* a valid flight with a thermal and with a shorter circling run flown over
\* some distance
C26_Witness ==
    /\ Finished
    /\ Len(thermals) >= 1
    /\ \E r \in ShortRuns : PathLength(r[1], r[2]) > 0


\* what decode(e) returns on a freshly constructed decoder with the tables
\* the instance was constructed with
FreshDecode(e) ==
    IF e = <<>> THEN <<>>
    ELSE decode_run(new_init_log, transition_log, emission_log, e).states

\* C27: a decode call leaves the three log-probability tables of the decoder
\* as they were, and returns what a freshly constructed decoder with the same
\* parameters returns for the same emissions.
C27_DecodeLeavesDecoderUnchanged ==
    [][calls' = calls + 1 =>
          /\ init_log' = init_log
          /\ transition_log' = transition_log
          /\ emission_log' = emission_log
          /\ states' = FreshDecode(emissions')]_vars


\* C28: in a valid flight there is one glide more than there are thermals, the
\* first glide enters at the takeoff fix, the last glide exits at the landing
\* fix, and every thermal enters at the fix where the glide before it exits
\* and exits at the fix where the glide after it enters.
C28_GlidesAndThermalsChain ==
    Finished =>
        /\ Len(glides) = Len(thermals) + 1
        /\ glides[1].enter_fix = takeoff_fix
        /\ glides[Len(glides)].exit_fix = landing_fix
        /\ \A i \in 1..Len(thermals) :
              /\ glides[i].exit_fix = thermals[i].enter_fix
              /\ glides[i + 1].enter_fix = thermals[i].exit_fix

\* a valid flight with two thermals and a glide of more than one fix between
\* them
C28_Witness ==
    /\ Finished
    /\ Len(thermals) = 2
    /\ Len(glides) = 3
    /\ glides[2].enter_fix < glides[2].exit_fix

\* the index where the circling run that holds the landing fix starts
LandingRunStart ==
    CHOOSE a \in FlightRange :
        /\ \A k \in a..landing_fix : FixAt(fixes, k).circling
        /\ a = takeoff_fix \/ ~FixAt(fixes, a - 1).circling

\* C29: every thermal of a valid flight exits at a not-circling fix of the
\* walked range that follows a circling run; a circling run still in progress
\* at the landing fix commits no thermal, whatever its duration, and lies in
\* the last glide, which always exits at the landing fix.
C29_OpenRunAtLandingCommitsNoThermal ==
    Finished =>
        /\ \A i \in 1..Len(thermals) :
              << thermals[i].enter_fix, thermals[i].exit_fix >> \in CirclingRuns
        /\ glides[Len(glides)].exit_fix = landing_fix
        /\ FixAt(fixes, landing_fix).circling =>
              /\ \A i \in 1..Len(thermals) : thermals[i].exit_fix < LandingRunStart
              /\ glides[Len(glides)].enter_fix <= LandingRunStart

\* a valid flight still circling at its landing fix, in a run that has lasted
\* at least min_time_for_thermal
C29_Witness ==
    /\ Finished
    /\ FixAt(fixes, landing_fix).circling
    /\ FixAt(fixes, landing_fix).rawtime - FixAt(fixes, LandingRunStart).rawtime
          >= min_time_for_thermal


\* C30: a task may hold a goal_line turnpoint, and when check_flight takes a
\* fix that is not after the end time while a goal_line turnpoint is the
\* current one, the call ends with an assertion error and does not return the
\* fixes reached so far.
C30_GoalLineRaises ==
    [][(/\ task_pc = "replay"
        /\ replayed < Len(fixes)
        /\ t < Len(turnpoints)
        /\ ~(end_time < fix.rawtime)
        /\ current.kind = "goal_line")
          => task_pc' = "raised"]_vars

\* check_flight has raised at a goal_line turnpoint after reaching the
\* turnpoint before it
C30_Witness ==
    /\ task_pc = "raised"
    /\ current.kind = "goal_line"
    /\ Len(reached_turnpoints) = 1

=============================================================================
